---- MODULE Spec2Model ----
(***************************************************************************)
(* The mock ledger daemon of persona-frontend (the Go HTTP server): its    *)
(* four in-memory maps, the transaction-broadcast handler that classifies  *)
(* the first message of an envelope and writes to the maps, and the query  *)
(* handlers that read them.                                                *)
(***************************************************************************)
EXTENDS Integers, Sequences, FiniteSets, TLC

VARIABLES
  createdDIDs,              \* map[string]map[string]interface{}: DID id -> record
  walletToDID,              \* map[string]string: controller -> DID id
  credentialsByController,  \* map[string][]map[string]interface{}
  proofsByController,       \* map[string][]map[string]interface{}
  LatestHeight,             \* chainInfo.LatestHeight
  now,                      \* time.Now().Unix()
  req,                      \* the request handled last
  resp,                     \* the response it was given
  served,                   \* the number of requests handled so far
  txLog,                    \* the bodies of the transactions received, in order
  statusCalls,              \* the number of /status calls completed so far
  goroutines,               \* the requests in flight, each with its position
  clientCredentials         \* state.credentials of the web client

vars == <<createdDIDs, walletToDID, credentialsByController, proofsByController,
          LatestHeight, now, req, resp, served, txLog, statusCalls,
          goroutines, clientCredentials>>

(***************************************************************************)
(* Bounds of the model.                                                    *)
(***************************************************************************)
\* the number of requests served in one run
MaxRequests == 2
\* the number of seconds the clock advances in one run
MaxClock == 1
\* the number of /status calls in one run
MaxStatus == 1
\* the number of transactions of a run that records them
MaxLog == 3
\* the number of requests served in one run over the whole query surface
MaxSurface == 3
\* the number of requests begun in one run of overlapping requests
MaxRace == 3

\* chainInfo.LatestHeight as the program starts
InitialHeight == 1000

(***************************************************************************)
(* JSON values.  A value is its kind and its text: the content of a        *)
(* string, the numeral of a number, the canonical JSON text of an object.  *)
(* "absent" is the result of reading a key the map does not hold.          *)
(***************************************************************************)
Absent == [k |-> "absent", s |-> ""]
Str(s) == [k |-> "str", s |-> s]
Num(n) == [k |-> "num", s |-> ToString(n)]
Bool(b) == [k |-> "bool", s |-> IF b THEN "true" ELSE "false"]
Null == [k |-> "null", s |-> "null"]
Obj(t) == [k |-> "obj", s |-> t]
Arr(t) == [k |-> "arr", s |-> t]

\* v.(string)
IsString(v) == v.k = "str"

\* a Go map value: the keys it holds are the domain of the function
EmptyMap == [x \in {} |-> x]
\* m[key], the zero value "absent" when the key is missing (also on a nil map)
Get(m, key) == IF key \in DOMAIN m THEN m[key] ELSE Absent
\* m[key] = v
MapSet(m, key, v) == [x \in (DOMAIN m) \cup {key} |-> IF x = key THEN v ELSE m[x]]

(***************************************************************************)
(* The strings and JSON texts the requests of the model are built from.    *)
(***************************************************************************)
Controllers == {"addrA", "addrB", "cosmos1test1"}
DidIds == {"did:x:1", "did:persona:123"}

DocText(id, c) == "{\"id\":\"" \o id \o "\",\"controller\":\"" \o c \o "\"}"
\* a document as the clients build it, with fields the ledger does not keep
FullDocText(id, c) ==
  "{\"id\":\"" \o id \o "\",\"controller\":\"" \o c
     \o "\",\"service\":[],\"created_at\":5,\"is_active\":false}"
DocNoId == "{\"controller\":\"addrA\"}"
DocNoController == "{\"id\":\"did:x:1\"}"
DocNumId == "{\"id\":7,\"controller\":\"addrA\"}"
DocNumController == "{\"id\":\"did:x:1\",\"controller\":7}"

SubjAge == "{\"templateId\":\"proof-of-age\"}"
SubjType == "{\"credentialType\":\"proof-of-age\"}"
VC1 == "{\"id\":\"vc1\",\"credentialSubject\":" \o SubjAge \o "}"
VC2 == "{\"id\":\"vc2\",\"credentialSubject\":" \o SubjType
          \o ",\"is_revoked\":true,\"created_at\":5}"
VCEmpty == "{}"

TextNull == "null"
TextArray == "[1]"
TextNumber == "7"
TextNotJSON == "not json"

DocTexts == {DocText(i, c) : i \in DidIds, c \in Controllers}
FullDocTexts == {FullDocText(i, c) : i \in DidIds, c \in Controllers}
ObjectTexts == DocTexts \cup FullDocTexts
                 \cup {DocNoId, DocNoController, DocNumId, DocNumController,
                       SubjAge, SubjType, VC1, VC2, VCEmpty}

\* the kind of JSON value a text is, "invalid" when it is no JSON text
JSONKind(t) ==
  CASE t \in ObjectTexts -> "obj"
    [] t = TextNull -> "null"
    [] t = TextArray -> "arr"
    [] t = TextNumber -> "num"
    [] OTHER -> "invalid"

\* the map a JSON object text decodes to
DecodeObject(t) ==
  CASE t \in DocTexts ->
         LET p == CHOOSE p \in DidIds \X Controllers : t = DocText(p[1], p[2])
         IN  [id |-> Str(p[1]), controller |-> Str(p[2])]
    [] t \in FullDocTexts ->
         LET p == CHOOSE p \in DidIds \X Controllers : t = FullDocText(p[1], p[2])
         IN  [id |-> Str(p[1]), controller |-> Str(p[2]), service |-> Arr("[]"),
              created_at |-> Num(5), is_active |-> Bool(FALSE)]
    [] t = DocNoId -> [controller |-> Str("addrA")]
    [] t = DocNoController -> [id |-> Str("did:x:1")]
    [] t = DocNumId -> [id |-> Num(7), controller |-> Str("addrA")]
    [] t = DocNumController -> [id |-> Str("did:x:1"), controller |-> Num(7)]
    [] t = SubjAge -> [templateId |-> Str("proof-of-age")]
    [] t = SubjType -> [credentialType |-> Str("proof-of-age")]
    [] t = VC1 -> [id |-> Str("vc1"), credentialSubject |-> Obj(SubjAge)]
    [] t = VC2 -> [id |-> Str("vc2"), credentialSubject |-> Obj(SubjType),
                   is_revoked |-> Bool(TRUE), created_at |-> Num(5)]
    [] OTHER -> EmptyMap

\* the decoded objects of the texts of the model, computed once
ObjectTable == [t \in ObjectTexts |-> DecodeObject(t)]
ObjectOf(t) == IF t \in ObjectTexts THEN ObjectTable[t] ELSE EmptyMap

\* json.Unmarshal([]byte(t), &m) for m a nil map[string]interface{}: an object
\* fills the map, null succeeds and leaves it nil, every other text is an error
Unmarshal(t) ==
  LET kind == JSONKind(t)
  IN  CASE kind = "obj" -> [err |-> FALSE, isNil |-> FALSE, m |-> ObjectOf(t)]
        [] kind = "null" -> [err |-> FALSE, isNil |-> TRUE, m |-> EmptyMap]
        [] OTHER -> [err |-> TRUE, isNil |-> TRUE, m |-> EmptyMap]

(***************************************************************************)
(* Request bodies of POST /cosmos/tx/v1beta1/txs.  A body is the kind of   *)
(* JSON text it is and, for an object, what its "msgs" key and its "tx"    *)
(* key hold.  A list value holds its elements; an element is a message     *)
(* object (a map) or some other JSON value.                                *)
(***************************************************************************)
NoList == [k |-> "absent", l |-> <<>>]
List(l) == [k |-> "list", l |-> l]
\* a value that is present and is no list
NotAList == [k |-> "str", l |-> <<>>]

MsgObj(m) == [isObj |-> TRUE, m |-> m]
NotAnObject == [isObj |-> FALSE, m |-> EmptyMap]

\* the value under "tx": k is its kind, body the value under its "body" key
NoTx == [k |-> "absent", body |-> [k |-> "absent", messages |-> NoList]]
TxNoBody == [k |-> "obj", body |-> [k |-> "absent", messages |-> NoList]]
TxNotObj == [k |-> "str", body |-> [k |-> "absent", messages |-> NoList]]
TxBodyNotObj == [k |-> "obj", body |-> [k |-> "str", messages |-> NoList]]
Tx(lv) == [k |-> "obj", body |-> [k |-> "obj", messages |-> lv]]

Body(kind, msgs, tx) == [kind |-> kind, msgs |-> msgs, tx |-> tx]
\* { msgs: [...] }
Flat(l) == Body("obj", List(l), NoTx)
\* { tx: { body: { messages: [...] } } }
Nested(l) == Body("obj", NoList, Tx(List(l)))

TypeCreateDid == "/persona.did.v1.MsgCreateDid"
TypeIssueCredential == "/persona.vc.v1.MsgIssueCredential"
TypeSubmitProof == "/persona.zk.v1.MsgSubmitProof"
TypeRevokeCredential == "/persona.vc.v1.MsgRevokeCredential"

Typed(t) == "@type" :> Str(t)

(***************************************************************************)
(* The registries as one value, and the broadcast handler as a function    *)
(* of the registries, the body, the clock and the block height.            *)
(***************************************************************************)
Regs == [dids |-> createdDIDs, w2d |-> walletToDID,
         creds |-> credentialsByController, proofs |-> proofsByController]

\* the registries as the program starts
EmptyRegs == [dids |-> EmptyMap, w2d |-> EmptyMap, creds |-> EmptyMap, proofs |-> EmptyMap]

\* fmt.Sprintf("%064d", n): the decimal numeral of n, zero-padded to 64 digits
RECURSIVE ZeroPad(_, _)
ZeroPad(s, w) == IF Len(s) >= w THEN s ELSE ZeroPad("0" \o s, w)
\* the padded numerals of the clock values and block heights of the model
PaddedClock == [n \in 0..(MaxClock + 1) |-> ZeroPad(ToString(n), 64)]
PaddedHeight ==
  [n \in InitialHeight..(InitialHeight + MaxStatus + 1) |-> ZeroPad(ToString(n), 64)]
Sprintf064d(n) ==
  IF n \in DOMAIN PaddedClock THEN PaddedClock[n]
  ELSE IF n \in DOMAIN PaddedHeight THEN PaddedHeight[n]
  ELSE ZeroPad(ToString(n), 64)

\* MsgList with tx.body.messages consulted before msgs
MsgList_NestedFirst(b) ==
  IF b.kind # "obj" THEN <<>>
  ELSE IF b.tx.k = "obj" /\ b.tx.body.k = "obj" /\ b.tx.body.messages.k = "list"
       THEN b.tx.body.messages.l
  ELSE IF b.msgs.k = "list" THEN b.msgs.l
  ELSE <<>>

\* the list the first message is taken from
MsgList(b) ==
  IF b.kind \notin {"obj", "null"} THEN <<>>      \* json.Unmarshal failed
  ELSE IF b.kind = "null" THEN <<>>               \* txData is a nil map
  ELSE IF b.msgs.k = "list" THEN b.msgs.l
  ELSE IF b.tx.k = "obj" /\ b.tx.body.k = "obj" /\ b.tx.body.messages.k = "list"
       THEN b.tx.body.messages.l
  ELSE <<>>

\* the outcome of one message handler
Applied(st) == [st |-> st, panic |-> FALSE]
Panicked(st) == [st |-> st, panic |-> TRUE]

\* CreateDid without the check of the controller field
CreateDid_NoControllerCheck(st, msg, t) ==
  LET dd == Get(msg, "did_document")
      u == Unmarshal(dd.s)
      parsed == IF dd.k = "str" THEN ~u.err ELSE dd.k = "obj"
      didDoc == IF dd.k = "str" THEN u.m ELSE ObjectOf(dd.s)
      didId == Get(didDoc, "id")
      controller == Get(didDoc, "controller")
  IN  IF parsed /\ IsString(didId)
      THEN Applied([st EXCEPT
             !.dids = MapSet(st.dids, didId.s,
                        [id |-> Str(didId.s), controller |-> Str(controller.s),
                         created_at |-> Num(t), updated_at |-> Num(t),
                         is_active |-> Bool(TRUE)]),
             !.w2d = MapSet(st.w2d, controller.s, didId.s)])
      ELSE Applied(st)

\* CreateDid without the write to the controller index
CreateDid_NoIndex(st, msg, t) ==
  LET dd == Get(msg, "did_document")
      u == Unmarshal(dd.s)
      parsed == IF dd.k = "str" THEN ~u.err ELSE dd.k = "obj"
      didDoc == IF dd.k = "str" THEN u.m ELSE ObjectOf(dd.s)
      didId == Get(didDoc, "id")
      controller == Get(didDoc, "controller")
  IN  IF parsed /\ IsString(didId) /\ IsString(controller)
      THEN Applied([st EXCEPT
             !.dids = MapSet(st.dids, didId.s,
                        [id |-> Str(didId.s), controller |-> Str(controller.s),
                         created_at |-> Num(t), updated_at |-> Num(t),
                         is_active |-> Bool(TRUE)])])
      ELSE Applied(st)

\* CreateDid that keeps the record an identifier already has
CreateDid_KeepFirst(st, msg, t) ==
  LET dd == Get(msg, "did_document")
      u == Unmarshal(dd.s)
      parsed == IF dd.k = "str" THEN ~u.err ELSE dd.k = "obj"
      didDoc == IF dd.k = "str" THEN u.m ELSE ObjectOf(dd.s)
      didId == Get(didDoc, "id")
      controller == Get(didDoc, "controller")
  IN  IF parsed /\ IsString(didId) /\ IsString(controller) /\ didId.s \notin DOMAIN st.dids
      THEN Applied([st EXCEPT
             !.dids = MapSet(st.dids, didId.s,
                        [id |-> Str(didId.s), controller |-> Str(controller.s),
                         created_at |-> Num(t), updated_at |-> Num(t),
                         is_active |-> Bool(TRUE)]),
             !.w2d = MapSet(st.w2d, controller.s, didId.s)])
      ELSE Applied(st)

\* CreateDid that keeps the fields of the submitted document in the record
CreateDid_StoreDocument(st, msg, t) ==
  LET dd == Get(msg, "did_document")
      u == Unmarshal(dd.s)
      parsed == IF dd.k = "str" THEN ~u.err ELSE dd.k = "obj"
      didDoc == IF dd.k = "str" THEN u.m ELSE ObjectOf(dd.s)
      didId == Get(didDoc, "id")
      controller == Get(didDoc, "controller")
  IN  IF parsed /\ IsString(didId) /\ IsString(controller)
      THEN Applied([st EXCEPT
             !.dids = MapSet(st.dids, didId.s,
                        [id |-> Str(didId.s), controller |-> Str(controller.s),
                         created_at |-> Num(t), updated_at |-> Num(t),
                         is_active |-> Bool(TRUE)] @@ didDoc),
             !.w2d = MapSet(st.w2d, controller.s, didId.s)])
      ELSE Applied(st)

\* case "/persona.did.v1.MsgCreateDid"
CreateDid(st, msg, t) ==
  LET dd == Get(msg, "did_document")
      u == Unmarshal(dd.s)
      parsed == IF dd.k = "str" THEN ~u.err ELSE dd.k = "obj"
      didDoc == IF dd.k = "str" THEN u.m ELSE ObjectOf(dd.s)
      didId == Get(didDoc, "id")
      controller == Get(didDoc, "controller")
  IN  IF parsed /\ IsString(didId) /\ IsString(controller)
      THEN Applied([st EXCEPT
             !.dids = MapSet(st.dids, didId.s,
                        [id |-> Str(didId.s), controller |-> Str(controller.s),
                         created_at |-> Num(t), updated_at |-> Num(t),
                         is_active |-> Bool(TRUE)]),
             !.w2d = MapSet(st.w2d, controller.s, didId.s)])
      ELSE Applied(st)

\* IssueCredential that puts the new credential in front of the list
IssueCredential_Prepend(st, msg, t) ==
  LET creator == Get(msg, "creator")
      vcData == Get(msg, "vc_data")
      u == Unmarshal(vcData.s)
      old == IF creator.s \in DOMAIN st.creds THEN st.creds[creator.s] ELSE <<>>
      credential == MapSet(MapSet(u.m, "created_at", Num(t)), "is_revoked", Bool(FALSE))
  IN  IF IsString(creator) /\ IsString(vcData) /\ ~u.err
      THEN IF u.isNil
           THEN Panicked(st)
           ELSE Applied([st EXCEPT
                  !.creds = MapSet(st.creds, creator.s, <<credential>> \o old)])
      ELSE Applied(st)

\* IssueCredential that keeps only the newest credential of a controller
IssueCredential_Replace(st, msg, t) ==
  LET creator == Get(msg, "creator")
      vcData == Get(msg, "vc_data")
      u == Unmarshal(vcData.s)
      credential == MapSet(MapSet(u.m, "created_at", Num(t)), "is_revoked", Bool(FALSE))
  IN  IF IsString(creator) /\ IsString(vcData) /\ ~u.err
      THEN IF u.isNil
           THEN Panicked(st)
           ELSE Applied([st EXCEPT !.creds = MapSet(st.creds, creator.s, <<credential>>)])
      ELSE Applied(st)

\* IssueCredential that stamps only what the payload does not carry itself
IssueCredential_KeepSubmitted(st, msg, t) ==
  LET creator == Get(msg, "creator")
      vcData == Get(msg, "vc_data")
      u == Unmarshal(vcData.s)
      old == IF creator.s \in DOMAIN st.creds THEN st.creds[creator.s] ELSE <<>>
      credential == u.m @@ ("created_at" :> Num(t)) @@ ("is_revoked" :> Bool(FALSE))
  IN  IF IsString(creator) /\ IsString(vcData) /\ ~u.err
      THEN IF u.isNil
           THEN Panicked(st)
           ELSE Applied([st EXCEPT
                  !.creds = MapSet(st.creds, creator.s, Append(old, credential))])
      ELSE Applied(st)

\* case "/persona.vc.v1.MsgIssueCredential"
IssueCredential(st, msg, t) ==
  LET creator == Get(msg, "creator")
      vcData == Get(msg, "vc_data")
      u == Unmarshal(vcData.s)
      old == IF creator.s \in DOMAIN st.creds THEN st.creds[creator.s] ELSE <<>>
      credential == MapSet(MapSet(u.m, "created_at", Num(t)), "is_revoked", Bool(FALSE))
  IN  IF IsString(creator) /\ IsString(vcData) /\ ~u.err
      THEN IF u.isNil
           THEN Panicked(st)     \* assignment to entry in nil map
           ELSE Applied([st EXCEPT
                  !.creds = MapSet(st.creds, creator.s, Append(old, credential))])
      ELSE Applied(st)

\* SubmitProof that keeps only the list of the prover
SubmitProof_DropOthers(st, msg, t) ==
  LET prover == IF IsString(Get(msg, "creator")) THEN Get(msg, "creator").s
                ELSE IF IsString(Get(msg, "prover")) THEN Get(msg, "prover").s
                ELSE ""
      proofData == IF IsString(Get(msg, "proof")) THEN Get(msg, "proof").s
                   ELSE IF IsString(Get(msg, "proof_data")) THEN Get(msg, "proof_data").s
                   ELSE ""
      circuitId == Get(msg, "circuit_id")
      old == IF prover \in DOMAIN st.proofs THEN st.proofs[prover] ELSE <<>>
      proof == [id |-> Str("proof_" \o ToString(t)),
                circuit_id |-> Str(circuitId.s),
                prover |-> Str(prover),
                proof_data |-> Str(proofData),
                public_inputs |-> Get(msg, "public_inputs"),
                metadata |-> Get(msg, "metadata"),
                is_verified |-> Bool(TRUE),
                created_at |-> Num(t)]
  IN  IF IsString(circuitId) /\ prover # "" /\ proofData # ""
      THEN Applied([st EXCEPT !.proofs = prover :> Append(old, proof)])
      ELSE Applied(st)

\* SubmitProof whose proof id also names the prover
SubmitProof_ProverInId(st, msg, t) ==
  LET prover == IF IsString(Get(msg, "creator")) THEN Get(msg, "creator").s
                ELSE IF IsString(Get(msg, "prover")) THEN Get(msg, "prover").s
                ELSE ""
      proofData == IF IsString(Get(msg, "proof")) THEN Get(msg, "proof").s
                   ELSE IF IsString(Get(msg, "proof_data")) THEN Get(msg, "proof_data").s
                   ELSE ""
      circuitId == Get(msg, "circuit_id")
      old == IF prover \in DOMAIN st.proofs THEN st.proofs[prover] ELSE <<>>
      proof == [id |-> Str("proof_" \o prover \o "_" \o ToString(t)),
                circuit_id |-> Str(circuitId.s),
                prover |-> Str(prover),
                proof_data |-> Str(proofData),
                public_inputs |-> Get(msg, "public_inputs"),
                metadata |-> Get(msg, "metadata"),
                is_verified |-> Bool(TRUE),
                created_at |-> Num(t)]
  IN  IF IsString(circuitId) /\ prover # "" /\ proofData # ""
      THEN Applied([st EXCEPT !.proofs = MapSet(st.proofs, prover, Append(old, proof))])
      ELSE Applied(st)

\* case "/persona.zk.v1.MsgSubmitProof"
SubmitProof(st, msg, t) ==
  LET prover == IF IsString(Get(msg, "creator")) THEN Get(msg, "creator").s
                ELSE IF IsString(Get(msg, "prover")) THEN Get(msg, "prover").s
                ELSE ""
      proofData == IF IsString(Get(msg, "proof")) THEN Get(msg, "proof").s
                   ELSE IF IsString(Get(msg, "proof_data")) THEN Get(msg, "proof_data").s
                   ELSE ""
      circuitId == Get(msg, "circuit_id")
      old == IF prover \in DOMAIN st.proofs THEN st.proofs[prover] ELSE <<>>
      proof == [id |-> Str("proof_" \o ToString(t)),
                circuit_id |-> Str(circuitId.s),
                prover |-> Str(prover),
                proof_data |-> Str(proofData),
                public_inputs |-> Get(msg, "public_inputs"),
                metadata |-> Get(msg, "metadata"),
                is_verified |-> Bool(TRUE),
                created_at |-> Num(t)]
  IN  IF IsString(circuitId) /\ prover # "" /\ proofData # ""
      THEN Applied([st EXCEPT !.proofs = MapSet(st.proofs, prover, Append(old, proof))])
      ELSE Applied(st)

\* Dispatch with a default case that issues a credential
Dispatch_DefaultIssues(st, msgs, t) ==
  IF Len(msgs) > 0 /\ msgs[1].isObj /\ IsString(Get(msgs[1].m, "@type"))
  THEN LET msg == msgs[1].m
           msgType == Get(msg, "@type").s
       IN  CASE msgType = TypeCreateDid -> CreateDid(st, msg, t)
             [] msgType = TypeSubmitProof -> SubmitProof(st, msg, t)
             [] OTHER -> IssueCredential(st, msg, t)
  ELSE Applied(st)

\* Dispatch on the last message of the list
Dispatch_LastMessage(st, msgs, t) ==
  IF Len(msgs) > 0 /\ msgs[Len(msgs)].isObj /\ IsString(Get(msgs[Len(msgs)].m, "@type"))
  THEN LET msg == msgs[Len(msgs)].m
           msgType == Get(msg, "@type").s
       IN  CASE msgType = TypeCreateDid -> CreateDid(st, msg, t)
             [] msgType = TypeIssueCredential -> IssueCredential(st, msg, t)
             [] msgType = TypeSubmitProof -> SubmitProof(st, msg, t)
             [] OTHER -> Applied(st)
  ELSE Applied(st)

\* the switch on the first message of the list
Dispatch(st, msgs, t) ==
  IF Len(msgs) > 0 /\ msgs[1].isObj /\ IsString(Get(msgs[1].m, "@type"))
  THEN LET msg == msgs[1].m
           msgType == Get(msg, "@type").s
       IN  CASE msgType = TypeCreateDid -> CreateDid(st, msg, t)
             [] msgType = TypeIssueCredential -> IssueCredential(st, msg, t)
             [] msgType = TypeSubmitProof -> SubmitProof(st, msg, t)
             [] OTHER -> Applied(st)
  ELSE Applied(st)

\* a panic in a handler ends the request: net/http recovers it and closes the
\* connection, and no response is written
NoResponse == [completed |-> FALSE, status |-> 0, body |-> EmptyMap]
OK(body) == [completed |-> TRUE, status |-> 200, body |-> body]

MockTxResponse(t, h) ==
  [txhash |-> "0x" \o Sprintf064d(t), height |-> h, code |-> 0, data |-> ""]

handleBroadcastTx(st, b, t, h) ==
  LET r == Dispatch(st, MsgList(b), t)
  IN  [st |-> r.st,
       resp |-> IF r.panic THEN NoResponse ELSE OK(MockTxResponse(t, h))]

(***************************************************************************)
(* The query handlers, as functions of the registries and the path value.  *)
(***************************************************************************)
\* a Go slice read from a map: nil (encoded as JSON null) when the key is missing
Lookup(m, key) ==
  IF key \in DOMAIN m THEN [isNull |-> FALSE, items |-> m[key]]
  ELSE [isNull |-> TRUE, items |-> <<>>]
EmptySlice == [isNull |-> FALSE, items |-> <<>>]

Pagination(n) == [next_key |-> Null, total |-> ToString(n)]

\* handleGetDID that answers a null document for an id that is not stored
handleGetDID_Absent(st, id, t) ==
  IF id \in DOMAIN st.dids
  THEN OK([did_document |-> st.dids[id]])
  ELSE OK([did_document |-> Null])

handleGetDID(st, id, t) ==
  IF id \in DOMAIN st.dids
  THEN OK([did_document |-> st.dids[id]])
  ELSE OK([did_document |->
             [id |-> Str(id), controller |-> Str("cosmos1test1"),
              created_at |-> Num(t), updated_at |-> Num(t), is_active |-> Bool(TRUE)]])

handleGetDIDByController(st, controller) ==
  IF controller \in DOMAIN st.w2d /\ st.w2d[controller] \in DOMAIN st.dids
  THEN OK([did_document |-> st.dids[st.w2d[controller]]])
  ELSE OK([did_document |-> Null])

\* handleGetCredentialsByController without the replacement of the nil slice
handleGetCredentialsByController_Nil(st, controller) ==
  LET credentials == Lookup(st.creds, controller)
  IN  OK([vc_records |-> credentials, pagination |-> Pagination(Len(credentials.items))])

handleGetCredentialsByController(st, controller) ==
  LET found == Lookup(st.creds, controller)
      credentials == IF found.isNull THEN EmptySlice ELSE found
  IN  OK([vc_records |-> credentials, pagination |-> Pagination(Len(credentials.items))])

handleGetProofsByController(st, controller) ==
  LET found == Lookup(st.proofs, controller)
      proofs == IF found.isNull THEN EmptySlice ELSE found
  IN  OK([zk_proofs |-> proofs, pagination |-> Pagination(Len(proofs.items))])

\* handleStatus that reports the height it found
handleStatus_Stale(h) ==
  [height |-> h + 1,
   resp |-> OK([latest_block_hash |-> "0x" \o Sprintf064d(h),
                latest_block_height |-> ToString(h),
                catching_up |-> FALSE])]

\* chainInfo.LatestHeight++ and the sync_info of the response
handleStatus(h) ==
  [height |-> h + 1,
   resp |-> OK([latest_block_hash |-> "0x" \o Sprintf064d(h + 1),
                latest_block_height |-> ToString(h + 1),
                catching_up |-> FALSE])]

\* an http.Error answer, or a JSON error answer with a status set by WriteHeader
Failed(status, body) == [completed |-> TRUE, status |-> status, body |-> body]

\* the orders in which a range statement can visit the keys of a Go map
Orders(keys) ==
  {o \in [1..Cardinality(keys) -> keys] : \A i, j \in DOMAIN o : o[i] = o[j] => i = j}

\* an entry of mockDIDs
MockDID(id, controller, t) ==
  [id |-> Str(id), controller |-> Str(controller), created_at |-> Num(t),
   updated_at |-> Num(t), is_active |-> Bool(TRUE)]

\* handleListDIDs that leaves out a created record whose id a seeded one has
handleListDIDs_Dedup(st, t, order) ==
  LET seeded == <<MockDID("did:persona:123", "cosmos1test1", t),
                  MockDID("did:persona:456", "cosmos1test2", t)>>
      created == [i \in 1..Len(order) |-> st.dids[order[i]]]
      mockDIDs == seeded \o SelectSeq(created,
                     LAMBDA d : d.id \notin {seeded[1].id, seeded[2].id})
  IN  OK([did_documents |-> [isNull |-> FALSE, items |-> mockDIDs],
          pagination |-> Pagination(Len(mockDIDs))])

\* order is the order in which the range over createdDIDs visits its keys
handleListDIDs(st, t, order) ==
  LET seeded == <<MockDID("did:persona:123", "cosmos1test1", t),
                  MockDID("did:persona:456", "cosmos1test2", t)>>
      mockDIDs == seeded \o [i \in 1..Len(order) |-> st.dids[order[i]]]
  IN  OK([did_documents |-> [isNull |-> FALSE, items |-> mockDIDs],
          pagination |-> Pagination(Len(mockDIDs))])

\* handleListProofs that also lists the proofs of the seeded prover
handleListProofs_WithStored(st, t) ==
  LET mockProofs == <<[id |-> Str("proof_001"), circuit_id |-> Str("circuit_001"),
                       prover |-> Str("cosmos1test1"), is_verified |-> Bool(TRUE),
                       created_at |-> Num(t)]>>
                      \o Lookup(st.proofs, "addrA").items
  IN  OK([zk_proofs |-> [isNull |-> FALSE, items |-> mockProofs],
          pagination |-> Pagination(Len(mockProofs))])

\* st, the registries, is what the handler could read and does not
handleListProofs(st, t) ==
  LET mockProofs == <<[id |-> Str("proof_001"), circuit_id |-> Str("circuit_001"),
                       prover |-> Str("cosmos1test1"), is_verified |-> Bool(TRUE),
                       created_at |-> Num(t)]>>
  IN  OK([zk_proofs |-> [isNull |-> FALSE, items |-> mockProofs],
          pagination |-> Pagination(Len(mockProofs))])

handleListCircuits(t) ==
  LET mockCircuits == <<[id |-> Str("circuit_001"), name |-> Str("test_circuit"),
                         creator |-> Str("cosmos1test1"), is_active |-> Bool(TRUE),
                         created_at |-> Num(t)]>>
  IN  OK([circuits |-> [isNull |-> FALSE, items |-> mockCircuits],
          pagination |-> Pagination(Len(mockCircuits))])

handleListVCs(st, t) ==
  LET mockVCs == <<[id |-> Str("vc_001"), issuer_did |-> Str("did:persona:123"),
                    subject_did |-> Str("did:persona:456"), issued_at |-> Num(t),
                    is_revoked |-> Bool(FALSE)]>>
  IN  OK([vc_records |-> [isNull |-> FALSE, items |-> mockVCs],
          pagination |-> Pagination(Len(mockVCs))])

\* the same balance for any address
handleAccountBalance(address) ==
  OK([balances |-> [isNull |-> FALSE,
                    items |-> <<[denom |-> "uprsn", amount |-> "1000000000"]>>],
      pagination |-> Pagination(1)])

handleNodeInfo ==
  OK([id |-> "mock-node-001", moniker |-> "testnet-node", version |-> "v1.0.0-test"])

handleHealth(h, t) ==
  OK([status |-> "healthy", chain_id |-> "persona-testnet-1", height |-> h,
      timestamp |-> t])

\* m[key] of a Go map[string]interface{}: nil, encoded as null, when missing
Index(m, key) == IF key \in DOMAIN m THEN m[key] ELSE Null

\* the index at which a loop that breaks on the first hit stops, 0 when
\* there is no hit
FirstIndex(hits) ==
  IF hits = {} THEN 0 ELSE CHOOSE i \in hits : \A j \in hits : i <= j

\* the credential names the template, as templateId or as credentialType of
\* its credentialSubject object
MatchesTemplate(cred, templateId) ==
  LET subject == Get(cred, "credentialSubject")
      fields == IF subject.k = "obj" THEN ObjectOf(subject.s) ELSE EmptyMap
  IN  /\ subject.k = "obj"
      /\ \/ Get(fields, "templateId") = Str(templateId)
         \/ Get(fields, "credentialType") = Str(templateId)

\* GET /api/getVc?did=..&templateId=..; order is the order in which the range
\* over walletToDID visits its keys
handleGetVc(st, did, templateId, t, order) ==
  LET found == FirstIndex({i \in DOMAIN order : st.w2d[order[i]] = did})
      controller == IF found = 0 THEN "" ELSE order[found]
      credentials == Lookup(st.creds, controller)
      match == FirstIndex({i \in DOMAIN credentials.items :
                             MatchesTemplate(credentials.items[i], templateId)})
      matchingCredential == credentials.items[match]
  IN  IF did = "" \/ templateId = ""
      THEN Failed(400, [text |-> "Missing required query parameters: did, templateId"])
      ELSE IF controller = ""
      THEN Failed(404, [error |-> "DID not found", did |-> did])
      ELSE IF credentials.isNull \/ Len(credentials.items) = 0
      THEN Failed(404, [error |-> "No credentials found for this DID", did |-> did])
      ELSE IF match = 0
      THEN Failed(404, [error |-> "Credential not found for the specified template",
                        did |-> did, templateId |-> templateId])
      ELSE OK([proof |-> [type |-> "ZKProof", created |-> t, verified |-> TRUE,
                          templateId |-> templateId],
               publicInputs |-> [templateId |-> templateId, did |-> did, timestamp |-> t],
               metadata |-> [credentialId |-> Index(matchingCredential, "id"),
                             issuanceDate |-> Index(matchingCredential, "issuanceDate"),
                             templateId |-> templateId],
               credential |-> matchingCredential])

\* the table of handleGetRequirements with the hotel entry cut short
useCaseRequirements_ShortHotel ==
  ("store" :> <<"proof-of-age">>)
    @@ ("bar" :> <<"proof-of-age">>)
    @@ ("hotel" :> <<"proof-of-age">>)
    @@ ("doctor" :> <<"proof-of-age", "health-credential">>)
    @@ ("bank" :> <<"proof-of-age", "employment-verification", "financial-status">>)
    @@ ("rental" :> <<"employment-verification", "financial-status", "location-proof">>)
    @@ ("employer" :> <<"education-credential", "employment-verification">>)
    @@ ("travel" :> <<"health-credential", "financial-status", "location-proof">>)
    @@ ("graduate_school" :> <<"education-credential">>)
    @@ ("investment" :> <<"financial-status", "employment-verification">>)

\* useCaseRequirements := map[string][]string{...}
useCaseRequirements ==
  ("store" :> <<"proof-of-age">>)
    @@ ("bar" :> <<"proof-of-age">>)
    @@ ("hotel" :> <<"proof-of-age", "location-proof">>)
    @@ ("doctor" :> <<"proof-of-age", "health-credential">>)
    @@ ("bank" :> <<"proof-of-age", "employment-verification", "financial-status">>)
    @@ ("rental" :> <<"employment-verification", "financial-status", "location-proof">>)
    @@ ("employer" :> <<"education-credential", "employment-verification">>)
    @@ ("travel" :> <<"health-credential", "financial-status", "location-proof">>)
    @@ ("graduate_school" :> <<"education-credential">>)
    @@ ("investment" :> <<"financial-status", "employment-verification">>)

\* the body of a POST /api/getRequirements: the kind of JSON text it is and,
\* for an object, its fields
RequirementsBody(kind, m) == [kind |-> kind, m |-> m]

\* POST /api/getRequirements
handleGetRequirements(body, t) ==
  LET did == Get(body.m, "did")
      useCase == Get(body.m, "useCase")
      requirements == IF useCase.s \in DOMAIN useCaseRequirements
                      THEN useCaseRequirements[useCase.s]
                      ELSE <<"proof-of-age">>
  IN  IF body.kind \notin {"obj", "null"}
      THEN Failed(400, [text |-> "Invalid JSON format"])
      ELSE IF ~IsString(did) \/ ~IsString(useCase)
      THEN Failed(400, [text |-> "Missing required fields: did, useCase"])
      ELSE OK([requirements |-> requirements, did |-> did.s, useCase |-> useCase.s,
               timestamp |-> t])

(***************************************************************************)
(* The requests of the model.                                              *)
(***************************************************************************)
\* the map m with key set to v, the key left out when v is Absent
With(m, key, v) == IF v.k = "absent" THEN m ELSE MapSet(m, key, v)

CreateDidMsg(dd) ==
  MsgObj(With(Typed(TypeCreateDid) @@ ("creator" :> Str("addrA")), "did_document", dd))
IssueMsg(creator, vc) ==
  MsgObj(With(With(Typed(TypeIssueCredential), "creator", creator), "vc_data", vc))
ProofMsg(creator, prover, proof, proofData, circuit) ==
  MsgObj(With(With(With(With(With(Typed(TypeSubmitProof),
    "creator", creator), "prover", prover), "proof", proof),
    "proof_data", proofData), "circuit_id", circuit))

\* identity documents that pass validation, as a JSON string and as an object
GoodDocs ==
  {Str(DocText(i, c)) : i \in DidIds, c \in {"addrA", "addrB"}}
    \cup {Str(DocText("did:x:1", "cosmos1test1")),
          Str(FullDocText("did:x:1", "addrA")), Obj(FullDocText("did:x:1", "addrA")),
          Obj(DocText("did:persona:123", "addrB"))}
\* identity documents that fail validation
BadDocs ==
  {Absent, Num(7), Str(TextNotJSON), Str(TextNull), Str(TextArray), Str(DocNoId),
   Obj(DocNoController), Str(DocNumId), Obj(DocNumController), Str(VCEmpty)}

GoodIssues ==
  {IssueMsg(Str(c), Str(v)) : c \in {"addrA", "addrB"}, v \in {VC1, VC2}}
    \cup {IssueMsg(Str("addrA"), Str(VCEmpty))}
BadIssues ==
  {IssueMsg(Absent, Str(VC1)), IssueMsg(Num(7), Str(VC1)),
   IssueMsg(Str("addrA"), Absent), IssueMsg(Str("addrA"), Obj(VC1)),
   IssueMsg(Str("addrA"), Str(TextNotJSON)), IssueMsg(Str("addrA"), Str(TextNull)),
   IssueMsg(Str("addrA"), Str(TextArray)), IssueMsg(Str("addrB"), Str(TextNumber)),
   \* the message the client library builds: issuer and claims
   MsgObj(Typed(TypeIssueCredential) @@ ("issuer" :> Str("addrA"))
            @@ ("claims" :> Str(VC1)))}

ProofMsgs ==
  {ProofMsg(Str("addrA"), Absent, Str("p1"), Absent, Str("circ1")),
   ProofMsg(Absent, Str("addrB"), Absent, Str("p2"), Str("circ1")),
   ProofMsg(Str("addrA"), Str("addrB"), Str("p1"), Str("p2"), Str("circ2")),
   ProofMsg(Str(""), Str("addrB"), Str("p1"), Absent, Str("circ1")),
   ProofMsg(Str("addrA"), Absent, Str(""), Str("p2"), Str("circ1")),
   ProofMsg(Num(7), Str("addrB"), Num(7), Str("p2"), Str("circ1")),
   ProofMsg(Absent, Absent, Str("p1"), Absent, Str("circ1")),
   ProofMsg(Str("addrA"), Absent, Absent, Absent, Str("circ1")),
   ProofMsg(Str("addrA"), Absent, Str("p1"), Absent, Absent),
   ProofMsg(Str("addrA"), Absent, Str("p1"), Absent, Num(7)),
   MsgObj(ProofMsg(Str("addrB"), Absent, Str("p1"), Absent, Str("circ1")).m
            @@ ("public_inputs" :> Arr("[\"2025\",\"18\"]"))
            @@ ("metadata" :> Str("{\"minAge\":18}")))}

\* messages no case of the switch takes
UnknownMsgs ==
  {MsgObj(Typed(TypeRevokeCredential) @@ ("revoker" :> Str("addrA"))),
   MsgObj(Typed("/persona.did.v1.MsgCreateDID") @@ ("did_document" :> Str(DocText("did:x:1", "addrA")))),
   MsgObj(Typed("/cosmos.bank.v1beta1.MsgSend") @@ ("creator" :> Str("addrA"))
            @@ ("vc_data" :> Str(VC1))),
   MsgObj(("creator" :> Str("addrA")) @@ ("vc_data" :> Str(VC1))),
   MsgObj(("@type" :> Num(7)) @@ ("creator" :> Str("addrA")) @@ ("vc_data" :> Str(VC1))),
   NotAnObject}

FirstMsgs ==
  {CreateDidMsg(d) : d \in GoodDocs \cup BadDocs}
    \cup GoodIssues \cup BadIssues \cup ProofMsgs \cup UnknownMsgs

AGoodDid == CreateDidMsg(Str(DocText("did:x:1", "addrA")))
AGoodIssue == IssueMsg(Str("addrB"), Str(VC1))
AGoodProof == ProofMsg(Str("addrA"), Absent, Str("p1"), Absent, Str("circ1"))

\* bodies that are no JSON object, or hold no usable list, or hold both lists
EnvelopeBodies ==
  {Body("invalid", NoList, NoTx), Body("null", NoList, NoTx), Body("arr", NoList, NoTx),
   Body("obj", NoList, NoTx),
   Body("obj", NoList, TxNotObj), Body("obj", NoList, TxNoBody),
   Body("obj", NoList, TxBodyNotObj), Body("obj", NoList, Tx(NotAList)),
   Body("obj", NotAList, NoTx),
   Body("obj", NotAList, Tx(List(<<AGoodIssue>>))),
   Body("obj", List(<<>>), NoTx),
   Body("obj", List(<<>>), Tx(List(<<AGoodDid>>))),
   Body("obj", List(<<AGoodIssue>>), Tx(List(<<AGoodDid>>))),
   Body("obj", List(<<AGoodProof>>), Tx(List(<<>>))),
   Body("obj", List(<<AGoodDid>>), TxNotObj),
   Flat(<<AGoodDid>>), Flat(<<AGoodProof>>),
   \* more than one message
   Nested(<<AGoodIssue, AGoodDid>>), Nested(<<AGoodDid, AGoodIssue, AGoodProof>>),
   Flat(<<NotAnObject, AGoodDid>>), Flat(<<AGoodProof, AGoodProof>>)}

Bodies == {Nested(<<m>>) : m \in FirstMsgs} \cup EnvelopeBodies

QueryControllers == Controllers \cup {"unknown-controller"}
QueryIds == DidIds \cup {"did:unknown"}

(***************************************************************************)
(* The state machine: one action per HTTP handler, requests served one at  *)
(* a time.                                                                 *)
(***************************************************************************)
NoBody == Body("none", NoList, NoTx)

\* net/http serves every connection on a goroutine of its own: two requests
\* can be in flight at once
Goroutines == {"g1", "g2"}
\* a goroutine that serves no request
Idle == [pc |-> "idle", op |-> "none", body |-> NoBody, arg |-> "", t |-> 0,
         list |-> <<>>, key |-> "", result |-> "none"]
Request(op, body, arg) == [op |-> op, body |-> body, arg |-> arg]

Init ==
  /\ createdDIDs = EmptyMap
  /\ walletToDID = EmptyMap
  /\ credentialsByController = EmptyMap
  /\ proofsByController = EmptyMap
  /\ LatestHeight = InitialHeight
  /\ now = 0
  /\ req = Request("none", NoBody, "")
  /\ resp = NoResponse
  /\ served = 0
  /\ txLog = <<>>
  /\ statusCalls = 0
  /\ goroutines = [g \in Goroutines |-> Idle]
  /\ clientCredentials = <<>>

\* the handler of POST /cosmos/tx/v1beta1/txs run on body b
Broadcast(b) ==
  LET r == handleBroadcastTx(Regs, b, now, LatestHeight)
  IN  /\ createdDIDs' = r.st.dids
      /\ walletToDID' = r.st.w2d
      /\ credentialsByController' = r.st.creds
      /\ proofsByController' = r.st.proofs
      /\ req' = Request("tx", b, "")
      /\ resp' = r.resp
      /\ UNCHANGED <<clientCredentials, LatestHeight, now, statusCalls, goroutines>>

\* POST /cosmos/tx/v1beta1/txs
BroadcastTx(b) ==
  /\ served < MaxRequests
  /\ served' = served + 1
  /\ Broadcast(b)
  /\ UNCHANGED txLog

Query(op, arg, response) ==
  /\ served < MaxRequests
  /\ served' = served + 1
  /\ req' = Request(op, NoBody, arg)
  /\ resp' = response
  /\ UNCHANGED <<clientCredentials, createdDIDs, walletToDID, credentialsByController,
                 proofsByController, LatestHeight, now, txLog, statusCalls,
                 goroutines>>

\* GET /persona/did/v1beta1/did_documents/{id}
GetDID(id) == Query("did_documents", id, handleGetDID(Regs, id, now))

\* GET /persona/did/v1beta1/did_by_controller/{controller}
GetDIDByController(c) == Query("did_by_controller", c, handleGetDIDByController(Regs, c))

\* GET /persona/vc/v1beta1/credentials_by_controller/{controller}
GetCredentialsByController(c) ==
  Query("credentials_by_controller", c, handleGetCredentialsByController(Regs, c))

\* GET /persona/zk/v1beta1/proofs_by_controller/{controller}
GetProofsByController(c) ==
  Query("proofs_by_controller", c, handleGetProofsByController(Regs, c))

\* GET /status
Status ==
  /\ LatestHeight < InitialHeight + MaxStatus
  /\ served < MaxRequests
  /\ served' = served + 1
  /\ LatestHeight' = handleStatus(LatestHeight).height
  /\ req' = Request("status", NoBody, "")
  /\ resp' = handleStatus(LatestHeight).resp
  /\ statusCalls' = statusCalls + 1
  /\ UNCHANGED <<clientCredentials, createdDIDs, walletToDID, credentialsByController,
                 proofsByController, now, txLog, goroutines>>

\* a second passes
Tick ==
  /\ now < MaxClock
  /\ now' = now + 1
  /\ UNCHANGED <<clientCredentials, createdDIDs, walletToDID, credentialsByController,
                 proofsByController, LatestHeight, req, resp, served, txLog,
                 statusCalls, goroutines>>

Next ==
  \/ \E b \in Bodies : BroadcastTx(b)
  \/ \E id \in QueryIds : GetDID(id)
  \/ \E c \in QueryControllers : GetDIDByController(c)
  \/ \E c \in QueryControllers : GetCredentialsByController(c)
  \/ \E c \in QueryControllers : GetProofsByController(c)
  \/ Status
  \/ Tick

Spec == Init /\ [][Next]_vars

(***************************************************************************)
(* The same handler with the received bodies recorded in txLog: runs of up *)
(* to MaxLog transactions drawn from a few bodies, of two controllers and  *)
(* all three message types.                                                *)
(***************************************************************************)
LogBodies ==
  {Nested(<<IssueMsg(Str("addrA"), Str(VC1))>>),
   Nested(<<IssueMsg(Str("addrA"), Str(VC2))>>),
   Nested(<<IssueMsg(Str("addrB"), Str(VC1))>>),
   Nested(<<IssueMsg(Str("addrA"), Str(TextArray))>>),
   Nested(<<AGoodDid>>),
   Nested(<<ProofMsg(Str("addrA"), Absent, Str("p1"), Absent, Str("circ1"))>>),
   Nested(<<ProofMsg(Str("addrA"), Absent, Absent, Str("p2"), Str("circ2"))>>),
   Nested(<<ProofMsg(Absent, Str("addrB"), Str("p1"), Absent, Str("circ1")), AGoodIssue>>),
   Nested(<<ProofMsg(Str("addrA"), Absent, Str("p1"), Absent, Absent)>>)}

LoggedBroadcastTx(b) ==
  /\ Len(txLog) < MaxLog
  /\ txLog' = Append(txLog, b)
  /\ Broadcast(b)
  /\ UNCHANGED served

NextLog ==
  \/ \E b \in LogBodies : LoggedBroadcastTx(b)
  \/ Tick

SpecLog == Init /\ [][NextLog]_vars

(***************************************************************************)
(* The whole HTTP surface: every GET route of the router next to the       *)
(* transaction broadcast, on runs of up to MaxSurface requests.            *)
(***************************************************************************)
SurfaceBodies ==
  {Nested(<<AGoodDid>>),
   Nested(<<CreateDidMsg(Str(DocText("did:x:1", "addrB")))>>),
   Nested(<<CreateDidMsg(Str(DocText("did:persona:123", "addrB")))>>),
   Nested(<<IssueMsg(Str("addrA"), Str(VC1))>>),
   Nested(<<IssueMsg(Str("addrA"), Str(VC2))>>),
   Nested(<<AGoodProof>>),
   Nested(<<IssueMsg(Str("addrA"), Str(TextNotJSON))>>)}
SurfaceControllers == {"addrA", "unknown-controller"}
SurfaceDids == {"", "did:x:1", "did:persona:123"}
SurfaceTemplates == {"", "proof-of-age", "location-proof"}

\* a GET handler wrote response for request r; no handler of a GET route
\* assigns to a registry or, /status aside, to chainInfo
Answer(r, response) ==
  /\ served < MaxSurface
  /\ served' = served + 1
  /\ req' = r
  /\ resp' = response
  /\ UNCHANGED <<clientCredentials, createdDIDs, walletToDID, credentialsByController,
                 proofsByController, LatestHeight, now, txLog, statusCalls,
                 goroutines>>

\* POST /cosmos/tx/v1beta1/txs
ServeBroadcastTx(b) ==
  /\ served < MaxSurface
  /\ served' = served + 1
  /\ Broadcast(b)
  /\ UNCHANGED txLog

\* GET /persona/did/v1beta1/did_documents
ServeListDIDs ==
  \E order \in Orders(DOMAIN createdDIDs) :
    Answer(Request("list_did_documents", NoBody, ""), handleListDIDs(Regs, now, order))

\* ServeGetDID that stores the record it synthesizes for an unknown id
ServeGetDID_Insert(id) ==
  LET response == handleGetDID(Regs, id, now)
  IN  /\ served < MaxSurface
      /\ served' = served + 1
      /\ req' = Request("did_documents", NoBody, id)
      /\ resp' = response
      /\ createdDIDs' = MapSet(createdDIDs, id, response.body.did_document)
      /\ UNCHANGED <<clientCredentials, walletToDID, credentialsByController, proofsByController,
                     LatestHeight, now, txLog, statusCalls, goroutines>>

\* GET /persona/did/v1beta1/did_documents/{id}
ServeGetDID(id) == Answer(Request("did_documents", NoBody, id), handleGetDID(Regs, id, now))

\* GET /persona/did/v1beta1/did_by_controller/{controller}
ServeGetDIDByController(c) ==
  Answer(Request("did_by_controller", NoBody, c), handleGetDIDByController(Regs, c))

\* GET /persona/vc/v1beta1/credentials
ServeListVCs == Answer(Request("list_credentials", NoBody, ""), handleListVCs(Regs, now))

\* GET /persona/vc/v1beta1/credentials_by_controller/{controller}
ServeGetCredentialsByController(c) ==
  Answer(Request("credentials_by_controller", NoBody, c),
         handleGetCredentialsByController(Regs, c))

\* GET /persona/zk/v1beta1/proofs
ServeListProofs == Answer(Request("list_proofs", NoBody, ""), handleListProofs(Regs, now))

\* GET /persona/zk/v1beta1/proofs_by_controller/{controller}
ServeGetProofsByController(c) ==
  Answer(Request("proofs_by_controller", NoBody, c), handleGetProofsByController(Regs, c))

\* GET /persona/zk/v1beta1/circuits
ServeListCircuits == Answer(Request("circuits", NoBody, ""), handleListCircuits(now))

\* GET /cosmos/bank/v1beta1/balances/{address}
ServeAccountBalance(address) ==
  Answer(Request("balances", NoBody, address), handleAccountBalance(address))

\* GET /health
ServeHealth == Answer(Request("health", NoBody, ""), handleHealth(LatestHeight, now))

\* GET /node_info
ServeNodeInfo == Answer(Request("node_info", NoBody, ""), handleNodeInfo)

\* GET /api/getVc
GetVcRequest(did, templateId) ==
  [op |-> "getVc", body |-> NoBody, arg |-> did, templateId |-> templateId]
ServeGetVc(did, templateId) ==
  \E order \in Orders(DOMAIN walletToDID) :
    Answer(GetVcRequest(did, templateId), handleGetVc(Regs, did, templateId, now, order))

\* GET /status
ServeStatus ==
  /\ served < MaxSurface
  /\ served' = served + 1
  /\ LatestHeight' = handleStatus(LatestHeight).height
  /\ req' = Request("status", NoBody, "")
  /\ resp' = handleStatus(LatestHeight).resp
  /\ statusCalls' = statusCalls + 1
  /\ UNCHANGED <<clientCredentials, createdDIDs, walletToDID, credentialsByController,
                 proofsByController, now, txLog, goroutines>>

NextSurface ==
  \/ \E b \in SurfaceBodies : ServeBroadcastTx(b)
  \/ ServeListDIDs
  \/ \E id \in SurfaceDids \ {""} : ServeGetDID(id)
  \/ \E c \in SurfaceControllers : ServeGetDIDByController(c)
  \/ ServeListVCs
  \/ \E c \in SurfaceControllers : ServeGetCredentialsByController(c)
  \/ ServeListProofs
  \/ \E c \in SurfaceControllers : ServeGetProofsByController(c)
  \/ ServeListCircuits
  \/ \E address \in SurfaceControllers : ServeAccountBalance(address)
  \/ ServeHealth
  \/ ServeNodeInfo
  \/ \E did \in SurfaceDids, templateId \in SurfaceTemplates : ServeGetVc(did, templateId)
  \/ ServeStatus
  \/ Tick

SpecSurface == Init /\ [][NextSurface]_vars

(***************************************************************************)
(* The requirements lookup, applied to bodies of every shape: no JSON, no  *)
(* object, and objects whose did and useCase are missing, of another type, *)
(* empty, known or unknown.                                                *)
(***************************************************************************)
\* the use cases of the use-case data file, with their requirements
UseCaseData ==
  [store |-> <<"proof-of-age">>,
   bar |-> <<"proof-of-age">>,
   hotel |-> <<"proof-of-age", "location-proof">>,
   doctor |-> <<"proof-of-age", "health-credential">>,
   bank |-> <<"proof-of-age", "employment-verification", "financial-status">>,
   rental |-> <<"employment-verification", "financial-status", "location-proof">>,
   employer |-> <<"education-credential", "employment-verification">>,
   travel |-> <<"health-credential", "financial-status", "location-proof">>,
   graduate_school |-> <<"education-credential">>,
   investment |-> <<"financial-status", "employment-verification">>]

\* the ids of the credential templates
TemplateIds ==
  {"proof-of-age", "employment-verification", "education-credential",
   "financial-status", "health-credential", "location-proof"}

UseCaseStrings ==
  DOMAIN UseCaseData \cup {"", "unknown_use_case", "Store", "proof-of-age"}
DidValues == {Absent, Null, Num(123), Str(""), Str("did:persona:test123")}
UseCaseValues == {Absent, Num(123), Bool(TRUE)} \cup {Str(u) : u \in UseCaseStrings}

RequirementsBodies ==
  {RequirementsBody("obj", With(With(EmptyMap, "did", d), "useCase", u)) :
     d \in DidValues, u \in UseCaseValues}
    \cup {RequirementsBody("invalid", EmptyMap), RequirementsBody("null", EmptyMap),
          RequirementsBody("arr", EmptyMap)}

RequirementsRequest(body) ==
  [op |-> "getRequirements", body |-> NoBody, arg |-> "", data |-> body]

GetRequirements(body) ==
  /\ req' = RequirementsRequest(body)
  /\ resp' = handleGetRequirements(body, now)
  /\ UNCHANGED <<clientCredentials, createdDIDs, walletToDID, credentialsByController,
                 proofsByController, LatestHeight, now, served, txLog, statusCalls,
                 goroutines>>

NextRequirements ==
  \/ \E body \in RequirementsBodies : GetRequirements(body)
  \/ Tick

SpecRequirements == Init /\ [][NextRequirements]_vars

(***************************************************************************)
(* Overlapping requests.  The handlers take no lock: a handler is a run of *)
(* reads and writes of the maps, and the steps of the requests in flight   *)
(* interleave.  A step is one statement that reads or writes a map.        *)
(***************************************************************************)
RaceBodies ==
  {Nested(<<IssueMsg(Str("addrA"), Str(VC1))>>),
   Nested(<<IssueMsg(Str("addrA"), Str(VC2))>>),
   Nested(<<AGoodProof>>),
   Nested(<<ProofMsg(Str("addrA"), Absent, Absent, Str("p2"), Str("circ2"))>>),
   Nested(<<AGoodDid>>),
   Nested(<<CreateDidMsg(Str(DocText("did:persona:123", "addrA")))>>)}

InFlight(g) == goroutines[g].pc \notin {"idle", "done", "fatal"}
Begun == served + Cardinality({g \in Goroutines : InFlight(g)})
\* the message goroutine g handles, and the state its handler would leave
\* when run alone on empty registries: the record it is about to store
MsgOf(g) == MsgList(goroutines[g].body)[1].m
Alone(g) == Dispatch(EmptyRegs, MsgList(goroutines[g].body), goroutines[g].t).st
At(g, pc) == goroutines[g].pc = pc
Goto(g, pc) == goroutines' = [goroutines EXCEPT ![g].pc = pc]

\* a transaction arrives and its first message is classified
BeginTx(g, b) ==
  /\ ~InFlight(g) /\ ~At(g, "fatal")
  /\ Begun < MaxRace
  /\ goroutines' = [goroutines EXCEPT ![g] =
       [Idle EXCEPT !.op = "tx", !.body = b, !.t = now,
                    !.pc = CASE Get(MsgList(b)[1].m, "@type").s = TypeIssueCredential
                                  -> "issue_check"
                             [] Get(MsgList(b)[1].m, "@type").s = TypeSubmitProof
                                  -> "proof_check"
                             [] OTHER -> "create_store"]]
  /\ UNCHANGED <<clientCredentials, createdDIDs, walletToDID, credentialsByController, proofsByController,
                 LatestHeight, now, req, resp, served, txLog, statusCalls>>

\* if credentialsByController[creator] == nil { ... = []map[string]interface{}{} }
IssueCheck(g) ==
  LET creator == Get(MsgOf(g), "creator").s
  IN  /\ At(g, "issue_check")
      /\ credentialsByController' =
           IF creator \in DOMAIN credentialsByController THEN credentialsByController
           ELSE MapSet(credentialsByController, creator, <<>>)
      /\ Goto(g, "issue_read")
      /\ UNCHANGED <<clientCredentials, createdDIDs, walletToDID, proofsByController,
                     LatestHeight, now, req, resp, served, txLog, statusCalls>>

\* append(credentialsByController[creator], credential): the list is read
IssueRead(g) ==
  /\ At(g, "issue_read")
  /\ goroutines' = [goroutines EXCEPT
       ![g].pc = "issue_write",
       ![g].list = Lookup(credentialsByController, Get(MsgOf(g), "creator").s).items]
  /\ UNCHANGED <<clientCredentials, createdDIDs, walletToDID, credentialsByController, proofsByController,
                 LatestHeight, now, req, resp, served, txLog, statusCalls>>

\* credentialsByController[creator] = the list read, with the credential appended
IssueWrite(g) ==
  LET creator == Get(MsgOf(g), "creator").s
  IN  /\ At(g, "issue_write")
      /\ credentialsByController' =
           MapSet(credentialsByController, creator,
                  Append(goroutines[g].list, Alone(g).creds[creator][1]))
      /\ Goto(g, "respond")
      /\ UNCHANGED <<clientCredentials, createdDIDs, walletToDID, proofsByController,
                     LatestHeight, now, req, resp, served, txLog, statusCalls>>

\* the prover the handler of g settled on
ProverOf(g) == CHOOSE p \in DOMAIN Alone(g).proofs : TRUE

\* if proofsByController[prover] == nil { ... = []map[string]interface{}{} }
ProofCheck(g) ==
  /\ At(g, "proof_check")
  /\ proofsByController' =
       IF ProverOf(g) \in DOMAIN proofsByController THEN proofsByController
       ELSE MapSet(proofsByController, ProverOf(g), <<>>)
  /\ Goto(g, "proof_read")
  /\ UNCHANGED <<clientCredentials, createdDIDs, walletToDID, credentialsByController,
                 LatestHeight, now, req, resp, served, txLog, statusCalls>>

\* append(proofsByController[prover], proof): the list is read
ProofRead(g) ==
  /\ At(g, "proof_read")
  /\ goroutines' = [goroutines EXCEPT
       ![g].pc = "proof_write",
       ![g].list = Lookup(proofsByController, ProverOf(g)).items]
  /\ UNCHANGED <<clientCredentials, createdDIDs, walletToDID, credentialsByController, proofsByController,
                 LatestHeight, now, req, resp, served, txLog, statusCalls>>

\* proofsByController[prover] = the list read, with the proof appended
ProofWrite(g) ==
  /\ At(g, "proof_write")
  /\ proofsByController' =
       MapSet(proofsByController, ProverOf(g),
              Append(goroutines[g].list, Alone(g).proofs[ProverOf(g)][1]))
  /\ Goto(g, "respond")
  /\ UNCHANGED <<clientCredentials, createdDIDs, walletToDID, credentialsByController,
                 LatestHeight, now, req, resp, served, txLog, statusCalls>>

\* the identifier the handler of g creates
DidOf(g) == CHOOSE id \in DOMAIN Alone(g).dids : TRUE
ControllerOf(g) == CHOOSE c \in DOMAIN Alone(g).w2d : TRUE

\* CreateStore that writes the controller index ahead of the registry
CreateStore_IndexFirst(g) ==
  /\ At(g, "create_store")
  /\ walletToDID' = MapSet(walletToDID, ControllerOf(g), DidOf(g))
  /\ Goto(g, "create_index")
  /\ UNCHANGED <<clientCredentials, createdDIDs, credentialsByController, proofsByController,
                 LatestHeight, now, req, resp, served, txLog, statusCalls>>

\* createdDIDs[didId] = map[string]interface{}{...}
CreateStore(g) ==
  /\ At(g, "create_store")
  /\ createdDIDs' = MapSet(createdDIDs, DidOf(g), Alone(g).dids[DidOf(g)])
  /\ Goto(g, "create_index")
  /\ UNCHANGED <<clientCredentials, walletToDID, credentialsByController, proofsByController,
                 LatestHeight, now, req, resp, served, txLog, statusCalls>>

\* walletToDID[controller] = didId
CreateIndex(g) ==
  /\ At(g, "create_index")
  /\ walletToDID' = MapSet(walletToDID, ControllerOf(g), DidOf(g))
  /\ Goto(g, "respond")
  /\ UNCHANGED <<clientCredentials, createdDIDs, credentialsByController, proofsByController,
                 LatestHeight, now, req, resp, served, txLog, statusCalls>>

\* the receipt is written and the transaction is complete
Respond(g) ==
  /\ At(g, "respond")
  /\ goroutines' = [goroutines EXCEPT ![g].pc = "done", ![g].result = "receipt"]
  /\ served' = served + 1
  /\ txLog' = Append(txLog, goroutines[g].body)
  /\ req' = Request("tx", goroutines[g].body, "")
  /\ resp' = OK(MockTxResponse(now, LatestHeight))
  /\ UNCHANGED <<clientCredentials, createdDIDs, walletToDID, credentialsByController, proofsByController,
                 LatestHeight, now, statusCalls>>

\* GET did_by_controller/{controller} arrives
BeginLookup(g, controller) ==
  /\ ~InFlight(g) /\ ~At(g, "fatal")
  /\ Begun < MaxRace
  /\ goroutines' = [goroutines EXCEPT ![g] =
       [Idle EXCEPT !.op = "did_by_controller", !.arg = controller, !.t = now,
                    !.pc = "lookup_index"]]
  /\ UNCHANGED <<clientCredentials, createdDIDs, walletToDID, credentialsByController, proofsByController,
                 LatestHeight, now, req, resp, served, txLog, statusCalls>>

\* if didId, exists := walletToDID[controller]; exists
LookupIndex(g) ==
  LET controller == goroutines[g].arg
      exists == controller \in DOMAIN walletToDID
  IN  /\ At(g, "lookup_index")
      /\ goroutines' = [goroutines EXCEPT
           ![g].pc = IF exists THEN "lookup_fetch" ELSE "done",
           ![g].key = IF exists THEN walletToDID[controller] ELSE "",
           ![g].result = IF exists THEN "none" ELSE "no index entry"]
      /\ served' = IF exists THEN served ELSE served + 1
      /\ req' = IF exists THEN req ELSE Request("did_by_controller", NoBody, controller)
      /\ resp' = IF exists THEN resp ELSE OK([did_document |-> Null])
      /\ UNCHANGED <<clientCredentials, createdDIDs, walletToDID, credentialsByController,
                     proofsByController, LatestHeight, now, txLog, statusCalls>>

\* if did, didExists := createdDIDs[didId]; didExists
LookupFetch(g) ==
  LET didId == goroutines[g].key
      didExists == didId \in DOMAIN createdDIDs
  IN  /\ At(g, "lookup_fetch")
      /\ goroutines' = [goroutines EXCEPT
           ![g].pc = "done",
           ![g].result = IF didExists THEN "found" ELSE "no record"]
      /\ served' = served + 1
      /\ req' = Request("did_by_controller", NoBody, goroutines[g].arg)
      /\ resp' = IF didExists THEN OK([did_document |-> createdDIDs[didId]])
                 ELSE OK([did_document |-> Null])
      /\ UNCHANGED <<clientCredentials, createdDIDs, walletToDID, credentialsByController,
                     proofsByController, LatestHeight, now, txLog, statusCalls>>

\* the positions at which the next statement writes a map
WritePositions ==
  {"issue_check", "issue_write", "proof_check", "proof_write", "create_store",
   "create_index"}

\* the runtime can detect a map write that overlaps another access of a map
\* and end the process: fatal error: concurrent map writes
Fatal ==
  /\ \E g, h \in Goroutines :
       g # h /\ InFlight(g) /\ InFlight(h) /\ goroutines[g].pc \in WritePositions
  /\ goroutines' = [g \in Goroutines |-> [goroutines[g] EXCEPT !.pc = "fatal"]]
  /\ UNCHANGED <<clientCredentials, createdDIDs, walletToDID, credentialsByController, proofsByController,
                 LatestHeight, now, req, resp, served, txLog, statusCalls>>

NextRace ==
  \/ \E g \in Goroutines, b \in RaceBodies : BeginTx(g, b)
  \/ \E g \in Goroutines : IssueCheck(g)
  \/ \E g \in Goroutines : IssueRead(g)
  \/ \E g \in Goroutines : IssueWrite(g)
  \/ \E g \in Goroutines : ProofCheck(g)
  \/ \E g \in Goroutines : ProofRead(g)
  \/ \E g \in Goroutines : ProofWrite(g)
  \/ \E g \in Goroutines : CreateStore(g)
  \/ \E g \in Goroutines : CreateIndex(g)
  \/ \E g \in Goroutines : Respond(g)
  \/ \E g \in Goroutines : BeginLookup(g, "addrA")
  \/ \E g \in Goroutines : LookupIndex(g)
  \/ \E g \in Goroutines : LookupFetch(g)
  \/ Fatal

SpecRace == Init /\ [][NextRace]_vars

(***************************************************************************)
(* The web client filling in a template: it posts the message its library  *)
(* builds and, on a receipt with code 0, adds the credential to its own     *)
(* list. The end-to-end script posts creator and vc_data instead.           *)
(***************************************************************************)
MaxClient == 3

Wallets == {"addrA", "addrB"}
CredentialIds == {"urn:credential:0-a", "urn:credential:0-b"}
ClientTemplates == {"proof-of-age", "location-proof"}
TemplateTitle(templateId) ==
  IF templateId = "proof-of-age" THEN "Proof of Age" ELSE "Location Proof"
\* JSON.stringify(claims)
ClaimsText(templateId) ==
  "{\"credentialType\":\"" \o templateId \o "\",\"templateId\":\"" \o templateId \o "\"}"

\* the body issueCredential posts
issueCredential(issuer, credentialId, credentialType, subject, claims) ==
  Nested(<<MsgObj(Typed(TypeIssueCredential)
                    @@ ("issuer" :> Str(issuer))
                    @@ ("credential_id" :> Str(credentialId))
                    @@ ("credential_type" :> Str(credentialType))
                    @@ ("subject" :> Str(subject))
                    @@ ("claims" :> Str(claims)))>>)

\* the credential handleSubmit hands to ADD_CREDENTIAL
NewCredential(credentialId, wallet, did, templateId) ==
  [id |-> credentialId, issuer |-> wallet, subject |-> did, templateId |-> templateId,
   is_revoked |-> FALSE]

\* reducer case ADD_CREDENTIAL
ADD_CREDENTIAL(list, payload) == Append(list, payload)

\* handleSubmit of the template form, for a connected wallet with a DID
TemplateFillSubmit(wallet, did, templateId, credentialId) ==
  LET b == issueCredential(wallet, credentialId, TemplateTitle(templateId), did,
                           ClaimsText(templateId))
      r == handleBroadcastTx(Regs, b, now, LatestHeight)
  IN  /\ served < MaxClient
      /\ served' = served + 1
      /\ createdDIDs' = r.st.dids
      /\ walletToDID' = r.st.w2d
      /\ credentialsByController' = r.st.creds
      /\ proofsByController' = r.st.proofs
      /\ req' = Request("tx", b, "")
      /\ resp' = r.resp
      /\ clientCredentials' =
           IF r.resp.completed /\ r.resp.body.code = 0
           THEN ADD_CREDENTIAL(clientCredentials,
                               NewCredential(credentialId, wallet, did, templateId))
           ELSE clientCredentials
      /\ UNCHANGED <<LatestHeight, now, txLog, statusCalls, goroutines>>

\* the issuance of the end-to-end script: creator and vc_data
ScriptIssue(wallet, vc) ==
  /\ served < MaxClient
  /\ served' = served + 1
  /\ Broadcast(Nested(<<IssueMsg(Str(wallet), Str(vc))>>))
  /\ UNCHANGED txLog

\* getCredentialsByController of the client library
ClientGetCredentials(wallet) ==
  /\ served < MaxClient
  /\ served' = served + 1
  /\ req' = Request("credentials_by_controller", NoBody, wallet)
  /\ resp' = handleGetCredentialsByController(Regs, wallet)
  /\ UNCHANGED <<clientCredentials, createdDIDs, walletToDID, credentialsByController,
                 proofsByController, LatestHeight, now, txLog, statusCalls,
                 goroutines>>

NextClient ==
  \/ \E wallet \in Wallets, templateId \in ClientTemplates, id \in CredentialIds :
       TemplateFillSubmit(wallet, "did:x:1", templateId, id)
  \/ \E wallet \in Wallets, vc \in {VC1, VC2} : ScriptIssue(wallet, vc)
  \/ \E wallet \in Wallets : ClientGetCredentials(wallet)

SpecClient == Init /\ [][NextClient]_vars

(***************************************************************************)
(* Vocabulary of the properties: what a request carried, read off the      *)
(* request itself.                                                         *)
(***************************************************************************)
\* the request handled last was a transaction broadcast
IsTx(r) == r.op = "tx"
\* this step handles a transaction broadcast, whose body is req'.body
TxStep == served' = served + 1 /\ IsTx(req')
HasFirst(b) == Len(MsgList(b)) > 0
\* the fields of the first message, an empty map when it is no JSON object
First(b) == IF HasFirst(b) /\ MsgList(b)[1].isObj THEN MsgList(b)[1].m ELSE EmptyMap
TypeOf(m) == IF IsString(Get(m, "@type")) THEN Get(m, "@type").s ELSE ""

\* a value that is a JSON object, given structured or as a JSON string
DecodesToObject(v) == v.k \in {"str", "obj"} /\ JSONKind(v.s) = "obj"
\* the string under key of the object v encodes, "" when there is none
StringField(v, key) ==
  IF DecodesToObject(v) /\ IsString(Get(ObjectOf(v.s), key))
  THEN Get(ObjectOf(v.s), key).s ELSE ""
HasStringField(v, key) == DecodesToObject(v) /\ IsString(Get(ObjectOf(v.s), key))

\* a MsgCreateDid whose document has a string id and a string controller
ValidCreateDid(m) ==
  /\ TypeOf(m) = TypeCreateDid
  /\ HasStringField(Get(m, "did_document"), "id")
  /\ HasStringField(Get(m, "did_document"), "controller")
\* the id and the controller of the document a MsgCreateDid carries
CreatedId(m) == StringField(Get(m, "did_document"), "id")
CreatedController(m) == StringField(Get(m, "did_document"), "controller")
CreatesDid(m, id, c) ==
  /\ ValidCreateDid(m)
  /\ CreatedId(m) = id
  /\ CreatedController(m) = c

\* a MsgIssueCredential with a string creator and a vc_data string holding a JSON object
ValidIssue(m) ==
  /\ TypeOf(m) = TypeIssueCredential
  /\ IsString(Get(m, "creator"))
  /\ IsString(Get(m, "vc_data"))
  /\ JSONKind(Get(m, "vc_data").s) = "obj"

\* a MsgSubmitProof that lacks the prover, the proof payload or circuit_id
LacksProofField(m) ==
  /\ TypeOf(m) = TypeSubmitProof
  /\ \/ ~IsString(Get(m, "creator")) /\ ~IsString(Get(m, "prover"))
     \/ ~IsString(Get(m, "proof")) /\ ~IsString(Get(m, "proof_data"))
     \/ ~IsString(Get(m, "circuit_id"))

\* a message of a recognized type that fails validation
FailsValidation(m) ==
  \/ TypeOf(m) = TypeCreateDid /\ ~ValidCreateDid(m)
  \/ TypeOf(m) = TypeIssueCredential /\ ~ValidIssue(m)
  \/ LacksProofField(m)

Unrecognized(m) == TypeOf(m) \notin {TypeCreateDid, TypeIssueCredential, TypeSubmitProof}

\* the receipt {txhash, height, code: 0, data: ""} was returned
IsReceipt(r) ==
  /\ r.completed
  /\ r.status = 200
  /\ DOMAIN r.body = {"txhash", "height", "code", "data"}
  /\ r.body.code = 0
  /\ r.body.data = ""

\* the id of the document a DID lookup returned, Absent for a null document
DocId(r) == IF r.completed THEN Get(r.body.did_document, "id") ELSE Absent
DocController(r) == IF r.completed THEN Get(r.body.did_document, "controller") ELSE Absent

(***************************************************************************)
(* Properties.                                                             *)
(***************************************************************************)

\* C1: every POST to /cosmos/tx/v1beta1/txs completes with the receipt
\* {txhash, height, code: 0, data: ""}, whatever the request body is.
C1_EveryBroadcastReturnsReceipt == IsTx(req) => IsReceipt(resp)

\* C2: a recognized message that fails validation leaves all four maps
\* exactly as they were.
C2_ValidationFailureChangesNothing ==
  [][(TxStep /\ FailsValidation(First(req'.body))) => Regs' = Regs]_vars

\* C2 witness: an issuance that failed validation was handled while the
\* registries held a record.
C2_Witness ==
  /\ IsTx(req)
  /\ TypeOf(First(req.body)) = TypeIssueCredential
  /\ FailsValidation(First(req.body))
  /\ DOMAIN credentialsByController # {}

\* C3: a transaction whose first message has no string @type, or one that is
\* none of the three known types, leaves the four maps unchanged and is
\* answered with code 0.
C3_UnknownTypeIsNoOp ==
  [][(TxStep /\ HasFirst(req'.body) /\ Unrecognized(First(req'.body)))
       => (Regs' = Regs /\ IsReceipt(resp'))]_vars

\* C3 witness: a revoke-credential message was handled while the registries
\* held a record.
C3_Witness ==
  /\ IsTx(req)
  /\ TypeOf(First(req.body)) = TypeRevokeCredential
  /\ DOMAIN createdDIDs # {}
  /\ IsReceipt(resp)

\* C4: right after a successful identity creation for (id = X, controller = C)
\* the lookup by X and the lookup by C both return a record whose id is X.
C4_CreatedDidIsFoundByBothKeys ==
  [][(TxStep /\ ValidCreateDid(First(req'.body)))
       => LET id == CreatedId(First(req'.body))
              c == CreatedController(First(req'.body))
          IN  /\ DocId(handleGetDID(Regs', id, now')) = Str(id)
              /\ DocId(handleGetDIDByController(Regs', c)) = Str(id)]_vars

\* C4 witness: an identity was created for a controller that was already
\* indexed under another identifier.
C4_Witness ==
  /\ IsTx(req)
  /\ CreatesDid(First(req.body), "did:persona:123", "addrA")
  /\ "did:x:1" \in DOMAIN createdDIDs
  /\ createdDIDs["did:x:1"].controller = Str("addrA")

\* the stored credential without the two fields the ledger stamps
Payload(cred) == [key \in (DOMAIN cred) \ {"created_at", "is_revoked"} |-> cred[key]]

\* the prover and the payload a MsgSubmitProof names: the first field name
\* when it holds a string, the synonym otherwise
NamedProver(m) ==
  IF IsString(Get(m, "creator")) THEN Get(m, "creator").s
  ELSE IF IsString(Get(m, "prover")) THEN Get(m, "prover").s ELSE ""
NamedProof(m) ==
  IF IsString(Get(m, "proof")) THEN Get(m, "proof").s
  ELSE IF IsString(Get(m, "proof_data")) THEN Get(m, "proof_data").s ELSE ""
ValidProof(m) ==
  /\ TypeOf(m) = TypeSubmitProof
  /\ IsString(Get(m, "circuit_id"))
  /\ NamedProver(m) # ""
  /\ NamedProof(m) # ""

\* the credential payloads issued by controller c in the log, in order
RECURSIVE IssuedBy(_, _)
IssuedBy(log, c) ==
  IF log = <<>> THEN <<>>
  ELSE LET m == First(Head(log))
       IN  (IF ValidIssue(m) /\ Get(m, "creator").s = c
            THEN <<Payload(ObjectOf(Get(m, "vc_data").s))>> ELSE <<>>)
             \o IssuedBy(Tail(log), c)

\* the (circuit, payload) pairs submitted by prover p in the log, in order
RECURSIVE ProvedBy(_, _)
ProvedBy(log, p) ==
  IF log = <<>> THEN <<>>
  ELSE LET m == First(Head(log))
       IN  (IF ValidProof(m) /\ NamedProver(m) = p
            THEN <<[circuit_id |-> Get(m, "circuit_id"), proof_data |-> Str(NamedProof(m)),
                    prover |-> Str(p)]>>
            ELSE <<>>)
             \o ProvedBy(Tail(log), p)

SeqMap(Op(_), seq) == [i \in 1..Len(seq) |-> Op(seq[i])]
ProofCore(proof) ==
  [circuit_id |-> proof.circuit_id, proof_data |-> proof.proof_data, prover |-> proof.prover]

ListedCredentials(c) == handleGetCredentialsByController(Regs, c).body.vc_records.items
ListedProofs(c) == handleGetProofsByController(Regs, c).body.zk_proofs.items

\* C5: for every controller the credential list returned is exactly the
\* sequence of applied credential payloads of that creator, in the order the
\* transactions were received, and likewise the proof list of every prover.
C5_ListsFollowSubmissionOrder ==
  \A c \in QueryControllers :
    /\ SeqMap(Payload, ListedCredentials(c)) = IssuedBy(txLog, c)
    /\ SeqMap(ProofCore, ListedProofs(c)) = ProvedBy(txLog, c)

\* C5 witness: two different credentials of one controller, with a
\* transaction of another kind received between them.
C5_Witness ==
  /\ Len(txLog) = 3
  /\ ValidIssue(First(txLog[1])) /\ ~ValidIssue(First(txLog[2])) /\ ValidIssue(First(txLog[3]))
  /\ Len(ListedCredentials("addrA")) = 2
  /\ ListedCredentials("addrA")[1].id # ListedCredentials("addrA")[2].id

\* C6: a second identity creation for an identifier leaves one record for
\* it, the record of the second transaction; creating the same (id,
\* controller) again leaves the identifier's id and controller as they were.
C6_SecondCreationOverwrites ==
  [][(TxStep /\ ValidCreateDid(First(req'.body)))
       => LET id == CreatedId(First(req'.body))
              c == CreatedController(First(req'.body))
          IN  /\ DOMAIN createdDIDs' = DOMAIN createdDIDs \cup {id}
              /\ Cardinality({k \in DOMAIN createdDIDs' : createdDIDs'[k].id = Str(id)}) = 1
              /\ DocId(handleGetDID(Regs', id, now')) = Str(id)
              /\ DocController(handleGetDID(Regs', id, now')) = Str(c)]_vars

\* C6 witness: the identifier was created before under another controller,
\* which the controller index still shows.
C6_Witness ==
  /\ IsTx(req)
  /\ CreatesDid(First(req.body), "did:x:1", "addrB")
  /\ "addrA" \in DOMAIN walletToDID
  /\ walletToDID["addrA"] = "did:x:1"

\* the prover and the payload a message carries under either field name:
\* the first name when it holds a non-empty string, the synonym otherwise
CarriedProver(m) ==
  IF IsString(Get(m, "creator")) /\ Get(m, "creator").s # "" THEN Get(m, "creator").s
  ELSE IF IsString(Get(m, "prover")) THEN Get(m, "prover").s ELSE ""
CarriedProof(m) ==
  IF IsString(Get(m, "proof")) /\ Get(m, "proof").s # "" THEN Get(m, "proof").s
  ELSE IF IsString(Get(m, "proof_data")) THEN Get(m, "proof_data").s ELSE ""
CarriesProof(m) ==
  /\ TypeOf(m) = TypeSubmitProof
  /\ IsString(Get(m, "circuit_id"))
  /\ CarriedProver(m) # ""
  /\ CarriedProof(m) # ""

ProofsOf(m, p) == IF p \in DOMAIN m THEN m[p] ELSE <<>>
AllVerified ==
  \A p \in DOMAIN proofsByController :
    \A i \in 1..Len(proofsByController[p]) :
      proofsByController[p][i].is_verified = Bool(TRUE)

\* C7: a MsgSubmitProof carrying a non-empty prover under either field name,
\* a non-empty proof payload under either field name and a string circuit_id
\* appends exactly one proof to that prover's list, with that prover, that
\* circuit_id and is_verified = true; every stored proof is verified.
C7_EitherFieldNameIsAccepted ==
  [][(TxStep /\ CarriesProof(First(req'.body)))
       => LET m == First(req'.body)
              p == CarriedProver(m)
              after == ProofsOf(proofsByController', p)
          IN  /\ Len(after) = Len(ProofsOf(proofsByController, p)) + 1
              /\ SubSeq(after, 1, Len(after) - 1) = ProofsOf(proofsByController, p)
              /\ after[Len(after)].prover = Str(p)
              /\ after[Len(after)].circuit_id = Get(m, "circuit_id")
              /\ after[Len(after)].is_verified = Bool(TRUE)
              /\ AllVerified']_vars

\* a list value cut down to its first element
FirstOfList(lv) == IF lv.k = "list" /\ Len(lv.l) > 1 THEN List(<<lv.l[1]>>) ELSE lv
\* the body with every message after the first one removed
FirstOnly(b) ==
  [b EXCEPT !.msgs = FirstOfList(b.msgs),
            !.tx.body.messages = FirstOfList(b.tx.body.messages)]
\* the state the registries are in after body b is handled in the current state
After(b) == handleBroadcastTx(Regs, b, now, LatestHeight).st

\* the number of records the registries hold
RECURSIVE SumLen(_, _)
SumLen(m, keys) ==
  IF keys = {} THEN 0
  ELSE LET key == CHOOSE x \in keys : TRUE
       IN  Len(m[key]) + SumLen(m, keys \ {key})
Stored(st) ==
  Cardinality(DOMAIN st.dids) + SumLen(st.creds, DOMAIN st.creds)
    + SumLen(st.proofs, DOMAIN st.proofs)

\* C8: only the first message of a transaction is processed: the registries
\* after the transaction are those after a transaction holding only the
\* first element of its list, and at most one record is created.
C8_OnlyFirstMessageIsProcessed ==
  [][TxStep => /\ Regs' = After(FirstOnly(req'.body))
                   /\ Stored(Regs') <= Stored(Regs) + 1]_vars

\* C8 witness: a transaction of an issuance followed by an identity creation
\* was handled: the credential is stored and no identity is.
C8_Witness ==
  /\ IsTx(req)
  /\ req.body = Nested(<<AGoodIssue, AGoodDid>>)
  /\ DOMAIN createdDIDs = {}
  /\ DOMAIN credentialsByController = {"addrB"}

\* C9: the message list is the top-level msgs list whenever there is one, and
\* tx.body.messages only when there is none: a body with a top-level list has
\* the effect of that list alone, a body without one the effect of the nested
\* list, and an empty top-level list makes the transaction a no-op.
C9_TopLevelListComesFirst ==
  [][(TxStep /\ req'.body.kind = "obj")
       => LET b == req'.body
              nested == b.tx.k = "obj" /\ b.tx.body.k = "obj"
                          /\ b.tx.body.messages.k = "list"
          IN  /\ b.msgs.k = "list" => Regs' = After(Flat(b.msgs.l))
              /\ (b.msgs.k = "list" /\ b.msgs.l = <<>>) => Regs' = Regs
              /\ (b.msgs.k # "list" /\ nested) => Regs' = After(Flat(b.tx.body.messages.l))
              /\ (b.msgs.k # "list" /\ ~nested) => Regs' = Regs]_vars

\* C9 witness: a body with an issuance in msgs and an identity creation in
\* tx.body.messages was handled: the credential is stored and no identity is.
C9_Witness ==
  /\ IsTx(req)
  /\ req.body = Body("obj", List(<<AGoodIssue>>), Tx(List(<<AGoodDid>>)))
  /\ DOMAIN createdDIDs = {}
  /\ DOMAIN credentialsByController = {"addrB"}

\* the response of a by-controller list query for a controller without records
IsEmptyList(r, key) ==
  /\ r.completed
  /\ r.status = 200
  /\ r.body[key] = [isNull |-> FALSE, items |-> <<>>]
  /\ r.body.pagination.total = "0"
IsNullDocument(r) ==
  /\ r.completed
  /\ r.status = 200
  /\ r.body.did_document = Null

\* C10: a query for a controller that has no stored entity never fails:
\* credentials_by_controller and proofs_by_controller return an empty list
\* (not null) with total "0", and did_by_controller returns a null document.
C10_UnknownControllerQueries ==
  /\ \A c \in QueryControllers :
       /\ c \notin DOMAIN credentialsByController
            => IsEmptyList(handleGetCredentialsByController(Regs, c), "vc_records")
       /\ c \notin DOMAIN proofsByController
            => IsEmptyList(handleGetProofsByController(Regs, c), "zk_proofs")
       /\ c \notin DOMAIN walletToDID
            => IsNullDocument(handleGetDIDByController(Regs, c))
  /\ (req.op = "credentials_by_controller" /\ req.arg \notin DOMAIN credentialsByController)
       => IsEmptyList(resp, "vc_records")
  /\ (req.op = "proofs_by_controller" /\ req.arg \notin DOMAIN proofsByController)
       => IsEmptyList(resp, "zk_proofs")
  /\ (req.op = "did_by_controller" /\ req.arg \notin DOMAIN walletToDID)
       => IsNullDocument(resp)

\* C10 witness: the credentials of the seeded controller cosmos1test1 were
\* queried while only another controller held credentials.
C10_Witness ==
  /\ req.op = "credentials_by_controller"
  /\ req.arg = "cosmos1test1"
  /\ DOMAIN credentialsByController = {"addrA"}
  /\ IsEmptyList(resp, "vc_records")

\* C11: the controller of a stored identifier never changes: every step
\* leaves each stored identifier stored, with the controller it had.
C11_ControllerIsImmutable ==
  [][\A id \in DOMAIN createdDIDs :
       /\ id \in DOMAIN createdDIDs'
       /\ createdDIDs'[id].controller = createdDIDs[id].controller]_vars

\* s is an initial segment of t
IsPrefix(s, t) == Len(s) <= Len(t) /\ SubSeq(t, 1, Len(s)) = s
ListOf(m, key) == IF key \in DOMAIN m THEN m[key] ELSE <<>>

\* C12: nothing stored is removed: in every step each controller's
\* credential list and proof list is a prefix of its list afterwards, and the
\* identifiers of the identity registry and the keys of the controller index
\* are all still there afterwards.
C12_NothingIsRemoved ==
  [][/\ \A c \in DOMAIN credentialsByController :
          IsPrefix(credentialsByController[c], ListOf(credentialsByController', c))
     /\ \A p \in DOMAIN proofsByController :
          IsPrefix(proofsByController[p], ListOf(proofsByController', p))
     /\ DOMAIN createdDIDs \subseteq DOMAIN createdDIDs'
     /\ DOMAIN walletToDID \subseteq DOMAIN walletToDID']_vars

\* C12 witness: a second credential was appended to a controller's list while
\* an identity was stored.
C12_Witness ==
  /\ IsTx(req)
  /\ ValidIssue(First(req.body))
  /\ Len(ListOf(credentialsByController, Get(First(req.body), "creator").s)) = 2
  /\ credentialsByController[Get(First(req.body), "creator").s][1].id = Str("vc1")
  /\ credentialsByController[Get(First(req.body), "creator").s][2].id = Str("vc2")

\* every stored credential is not revoked and carries a stamp of the clock
AllStamped ==
  \A c \in DOMAIN credentialsByController :
    \A i \in 1..Len(credentialsByController[c]) :
      /\ credentialsByController[c][i].is_revoked = Bool(FALSE)
      /\ credentialsByController[c][i].created_at \in {Num(t) : t \in 0..now}

\* C13: every stored credential has is_revoked = false and a created_at set
\* by the ledger, also when the vc_data payload carries is_revoked = true or
\* a created_at of its own; the credential an issuance stores is stamped with
\* the current time and has every other field as submitted.
C13_CredentialsAreStamped ==
  [][/\ AllStamped'
     /\ (TxStep /\ ValidIssue(First(req'.body)))
          => LET m == First(req'.body)
                 list == credentialsByController'[Get(m, "creator").s]
                 stored == list[Len(list)]
             IN  /\ stored.created_at = Num(now')
                 /\ stored.is_revoked = Bool(FALSE)
                 /\ Payload(stored) = Payload(ObjectOf(Get(m, "vc_data").s))]_vars

\* C13 witness: a payload carrying is_revoked = true and created_at = 5 was
\* issued and is stored not revoked, stamped with the current time.
C13_Witness ==
  /\ IsTx(req)
  /\ ValidIssue(First(req.body))
  /\ Get(First(req.body), "vc_data").s = VC2
  /\ ObjectOf(VC2).is_revoked = Bool(TRUE)
  /\ ObjectOf(VC2).created_at = Num(5)
  /\ now = 1
  /\ LET list == credentialsByController[Get(First(req.body), "creator").s]
     IN  /\ list[Len(list)].id = Str("vc2")
         /\ list[Len(list)].is_revoked = Bool(FALSE)
         /\ list[Len(list)].created_at = Num(1)

\* the list-all-identities response r holds the two seeded identities and
\* then one record for each stored identifier, and counts them
ListsEveryIdentity(r) ==
  LET items == r.body.did_documents.items
      n == Len(items)
  IN  /\ r.completed
      /\ r.status = 200
      /\ ~r.body.did_documents.isNull
      /\ n = 2 + Cardinality(DOMAIN createdDIDs)
      /\ items[1].id = Str("did:persona:123")
      /\ items[2].id = Str("did:persona:456")
      /\ \A id \in DOMAIN createdDIDs :
           Cardinality({i \in 3..n : items[i] = createdDIDs[id]}) = 1
      /\ r.body.pagination.total = ToString(n)

\* C14: the list-all-identities response holds the two seeded identities
\* did:persona:123 and did:persona:456 and exactly one record per stored
\* identifier, and its total is the number of entries, 2 plus the number of
\* stored identifiers, in whatever order the registry is visited.
C14_ListHoldsSeededAndCreated ==
  /\ \A order \in Orders(DOMAIN createdDIDs) :
       ListsEveryIdentity(handleListDIDs(Regs, now, order))
  /\ req.op = "list_did_documents" => ListsEveryIdentity(resp)

\* C14 witness: the identities were listed while two were stored, one of them
\* under the identifier of a seeded identity.
C14_Witness ==
  /\ req.op = "list_did_documents"
  /\ DOMAIN createdDIDs = {"did:x:1", "did:persona:123"}
  /\ resp.body.pagination.total = "4"
  /\ resp.body.did_documents.items[3].id = Str("did:persona:123")

\* this step serves a GET of the route op
GetStep(op) == served' = served + 1 /\ req'.op = op

\* C15: GET did_documents/{id} never reports absence: a stored id is answered
\* with its stored record, any other id with a record of that id, controller
\* cosmos1test1 and is_active = true; the call leaves the identity registry
\* and the controller index as they were.
C15_GetDIDNeverReportsAbsence ==
  [][GetStep("did_documents")
       => LET id == req'.arg
              doc == resp'.body.did_document
          IN  /\ resp'.completed
              /\ resp'.status = 200
              /\ doc # Null
              /\ id \in DOMAIN createdDIDs => doc = createdDIDs[id]
              /\ id \notin DOMAIN createdDIDs
                   => /\ doc.id = Str(id)
                      /\ doc.controller = Str("cosmos1test1")
                      /\ doc.is_active = Bool(TRUE)
              /\ createdDIDs' = createdDIDs
              /\ walletToDID' = walletToDID]_vars

\* C15 witness: an identifier that is not stored was looked up while another
\* one was stored, and a record was synthesized for it.
C15_Witness ==
  /\ req.op = "did_documents"
  /\ req.arg = "did:persona:123"
  /\ DOMAIN createdDIDs = {"did:x:1"}
  /\ resp.body.did_document.id = Str("did:persona:123")
  /\ resp.body.did_document.controller = Str("cosmos1test1")

\* what the registries hold: credentials, and proofs
StoredCredentials ==
  UNION {{credentialsByController[c][i] : i \in 1..Len(credentialsByController[c])} :
           c \in DOMAIN credentialsByController}
StoredProofs == UNION {{proofsByController[p][i] : i \in 1..Len(proofsByController[p])} :
                         p \in DOMAIN proofsByController}

\* r lists the one demo record with this id under key, and nothing stored
IsStaticList(r, key, id, stored) ==
  /\ r.completed
  /\ r.status = 200
  /\ Len(r.body[key].items) = 1
  /\ r.body[key].items[1].id = Str(id)
  /\ r.body[key].items[1] \notin stored
  /\ r.body.pagination.total = "1"

GetOps ==
  {"list_did_documents", "did_documents", "did_by_controller", "list_credentials",
   "credentials_by_controller", "list_proofs", "proofs_by_controller", "circuits",
   "balances", "health", "node_info", "status", "getVc"}

\* C17: no GET request, of any route of the query surface, changes the
\* identity registry, the controller index, the credential lists or the
\* proof lists.
C17_QueriesAreReadOnly ==
  [][(served' = served + 1 /\ ~IsTx(req'))
       => (req'.op \in GetOps /\ Regs' = Regs)]_vars

\* C17 witness: getVc found a stored credential of a stored identity and
\* answered 200, and the registries still hold both.
C17_Witness ==
  /\ req.op = "getVc"
  /\ resp.status = 200
  /\ resp.body.credential.id = Str("vc1")
  /\ DOMAIN createdDIDs = {"did:x:1"}
  /\ Len(credentialsByController["addrA"]) = 1

\* C18: the block height starts at 1000 and always is 1000 plus the number
\* of completed /status calls: a /status call adds one and reports the new
\* height, every other request and the clock leave it alone, and a
\* transaction receipt and /health carry the current height.
C18_HeightCountsStatusCalls ==
  /\ LatestHeight = 1000
  /\ statusCalls = 0
  /\ [][/\ LatestHeight' = 1000 + statusCalls'
        /\ GetStep("status")
             => /\ statusCalls' = statusCalls + 1
                /\ LatestHeight' = LatestHeight + 1
                /\ resp'.body.latest_block_height = ToString(LatestHeight')
        /\ ~GetStep("status")
             => /\ statusCalls' = statusCalls
                /\ LatestHeight' = LatestHeight
        /\ (TxStep /\ resp'.completed) => resp'.body.height = LatestHeight'
        /\ GetStep("health") => resp'.body.height = LatestHeight']_vars

\* C18 witness: /health was asked after two /status calls and carries 1002.
C18_Witness ==
  /\ req.op = "health"
  /\ statusCalls = 2
  /\ LatestHeight = 1002
  /\ resp.body.height = 1002

\* the requirements the handler answers for use case u and a did that passes
RequirementsFor(u) ==
  handleGetRequirements(
    RequirementsBody("obj", ("did" :> Str("did:persona:test123")) @@ ("useCase" :> Str(u))),
    now).body.requirements
NoRepeats(seq) == \A i, j \in DOMAIN seq : seq[i] = seq[j] => i = j

\* the list is what the claim says the lookup returns for use case u
IsRequirementsOf(list, u) ==
  /\ u = "store" => list = <<"proof-of-age">>
  /\ u = "bar" => list = <<"proof-of-age">>
  /\ u = "hotel" => list = <<"proof-of-age", "location-proof">>
  /\ u = "doctor" => list = <<"proof-of-age", "health-credential">>
  /\ u = "bank" => list = <<"proof-of-age", "employment-verification", "financial-status">>
  /\ u = "rental" => list = <<"employment-verification", "financial-status", "location-proof">>
  /\ u = "employer" => list = <<"education-credential", "employment-verification">>
  /\ u = "travel" => list = <<"health-credential", "financial-status", "location-proof">>
  /\ u = "graduate_school" => list = <<"education-credential">>
  /\ u = "investment" => list = <<"financial-status", "employment-verification">>
  /\ u \notin {"store", "bar", "hotel", "doctor", "bank", "rental", "employer", "travel",
               "graduate_school", "investment"} => list = <<"proof-of-age">>
  /\ list # <<>>
  /\ NoRepeats(list)
  /\ \A i \in DOMAIN list : list[i] \in TemplateIds
  /\ u \in DOMAIN UseCaseData => list = UseCaseData[u]

\* C19: for every use-case string the lookup returns the fixed list of that
\* use case, and <<proof-of-age>> for every other string, the empty one
\* included; the list is not empty, repeats no template id, holds ids of the
\* six templates only, and is the list the use-case data file gives.
C19_RequirementsOfEveryUseCase ==
  /\ \A u \in UseCaseStrings : IsRequirementsOf(RequirementsFor(u), u)
  /\ DOMAIN useCaseRequirements = DOMAIN UseCaseData
  /\ (req.op = "getRequirements" /\ resp.status = 200)
       => IsRequirementsOf(resp.body.requirements, resp.body.useCase)

\* C19 witness: the requirements of the use case bank were asked for and
\* the three of them were returned.
C19_Witness ==
  /\ req.op = "getRequirements"
  /\ Get(req.data.m, "useCase") = Str("bank")
  /\ resp.status = 200
  /\ Len(resp.body.requirements) = 3

\* a value that is a string and not the empty one
IsNonEmptyString(v) == IsString(v) /\ v.s # ""

\* C20: a requirements request is rejected, and returns no requirements,
\* when its did or its useCase is missing, is no string or is the empty
\* string; a request whose did and useCase are non-empty strings is accepted.
C20_RequirementsRequestIsValidated ==
  req.op = "getRequirements"
    => LET valid == /\ req.data.kind = "obj"
                    /\ IsNonEmptyString(Get(req.data.m, "did"))
                    /\ IsNonEmptyString(Get(req.data.m, "useCase"))
       IN  /\ valid => (resp.status = 200 /\ "requirements" \in DOMAIN resp.body)
           /\ ~valid => (resp.status = 400 /\ "requirements" \notin DOMAIN resp.body)

\* C21: when requests for one controller overlap, no append is lost: every
\* controller's credential list holds a record for each completed issuance
\* of that creator, and every prover's proof list one for each completed
\* submission.
C21_NoAppendIsLost ==
  \A c \in {"addrA"} :
    /\ Len(ListOf(credentialsByController, c)) >= Len(IssuedBy(txLog, c))
    /\ Len(ListOf(proofsByController, c)) >= Len(ProvedBy(txLog, c))

C22_LookupReturnsOwnController ==
  \A c \in QueryControllers :
    LET doc == handleGetDIDByController(Regs, c).body.did_document
    IN  doc # Null => doc.controller = Str(c)

\* the document of a MsgCreateDid in its other form: the JSON string of a
\* structured document, the structured document of a JSON string
OtherForm(m) ==
  LET dd == Get(m, "did_document")
  IN  MapSet(m, "did_document", IF dd.k = "str" THEN Obj(dd.s) ELSE Str(dd.s))

\* C24: a valid identity creation leaves the registries as the same creation
\* with the document in its other form (JSON string or sub-object) does, and
\* the stored record holds the id, the controller, the two ledger timestamps
\* and is_active = true, and no other field of the document.
C24_DocumentFormsAreEquivalent ==
  [][TxStep /\ ValidCreateDid(First(req'.body))
       => LET m == First(req'.body)
          IN  /\ Regs' = After(Nested(<<MsgObj(OtherForm(m))>>))
              /\ createdDIDs'[CreatedId(m)] =
                   [id |-> Str(CreatedId(m)), controller |-> Str(CreatedController(m)),
                    created_at |-> Num(now), updated_at |-> Num(now),
                    is_active |-> Bool(TRUE)]]_vars

\* a creation whose structured document carries more than id and controller
\* has been stored
C24_Witness ==
  /\ IsTx(req)
  /\ resp.completed
  /\ Get(First(req.body), "did_document") = Obj(FullDocText("did:x:1", "addrA"))
  /\ "did:x:1" \in DOMAIN createdDIDs
  /\ createdDIDs["did:x:1"].controller = Str("addrA")
  /\ walletToDID = [addrA |-> "did:x:1"]

\* the maps m and n are equal at every key but key
SameExcept(m, n, key) ==
  /\ (DOMAIN m) \ {key} = (DOMAIN n) \ {key}
  /\ \A x \in (DOMAIN m) \ {key} : m[x] = n[x]

\* C25: the registries are independent: a creation changes only the identity
\* entry of its id and the index entry of its controller, an issuance only the
\* credential list of its creator, a proof only the proof list of its prover;
\* every other key of every map, and the block height, stay as they were.
C25_RegistriesAreIndependent ==
  [][TxStep
       => LET m == First(req'.body)
          IN  /\ LatestHeight' = LatestHeight
              /\ ValidCreateDid(m)
                   => /\ SameExcept(createdDIDs, createdDIDs', CreatedId(m))
                      /\ SameExcept(walletToDID, walletToDID', CreatedController(m))
                      /\ UNCHANGED <<credentialsByController, proofsByController>>
              /\ ValidIssue(m)
                   => /\ SameExcept(credentialsByController, credentialsByController',
                                    Get(m, "creator").s)
                      /\ UNCHANGED <<createdDIDs, walletToDID, proofsByController>>
              /\ ValidProof(m)
                   => /\ SameExcept(proofsByController, proofsByController', NamedProver(m))
                      /\ UNCHANGED <<createdDIDs, walletToDID,
                                     credentialsByController>>]_vars

\* a proof of addrB has been stored next to the proof addrA had
C25_Witness ==
  /\ IsTx(req)
  /\ ValidProof(First(req.body))
  /\ NamedProver(First(req.body)) = "addrB"
  /\ DOMAIN proofsByController = {"addrA", "addrB"}
  /\ Len(proofsByController["addrA"]) = 1
  /\ Len(proofsByController["addrB"]) = 1

\* the proof stored last for prover p
LastProof(m, p) == m[p][Len(m[p])]

LedgerIds(c) ==
  LET listed == handleGetCredentialsByController(Regs, c).body.vc_records.items
  IN  {Get(listed[j], "id") : j \in 1..Len(listed)}

\* C27: a credential the client issued and added to its list on a code 0
\* receipt is among the credentials the ledger returns for the issuing
\* wallet, so that both lists hold the same credentials.
C27_ClientCredentialsAreOnLedger ==
  \A i \in 1..Len(clientCredentials) :
    Str(clientCredentials[i].id) \in LedgerIds(clientCredentials[i].issuer)

\* the entries of the list-all-identities response, whatever the order of
\* the created ones
ListedIdentities ==
  LET order == CHOOSE o \in Orders(DOMAIN createdDIDs) : TRUE
      listed == handleListDIDs(Regs, now, order).body.did_documents.items
  IN  {listed[i] : i \in 1..Len(listed)}

\* C28: every identity the list of all identities holds, the seeded ones
\* included, is returned by GET did_documents/{id} with the same controller.
C28_ListedIdentityIsFetchedAlike ==
  \A entry \in ListedIdentities :
    handleGetDID(Regs, entry.id.s, now).body.did_document.controller = entry.controller

\* the answers /api/getVc can give to one request in the current state, one
\* for each order in which the controller index can be visited
GetVcAnswers(did, templateId) ==
  {handleGetVc(Regs, did, templateId, now, order) : order \in Orders(DOMAIN walletToDID)}
\* the credentials of controller c that name the template, in list order
MatchingCredentials(c, templateId) ==
  SelectSeq(ListOf(credentialsByController, c),
            LAMBDA cred : MatchesTemplate(cred, templateId))
\* the controller the identity registry records for the DID holds a
\* credential of the template
RegisteredControllerHolds(did, templateId) ==
  /\ did \in DOMAIN createdDIDs
  /\ MatchingCredentials(createdDIDs[did].controller.s, templateId) # <<>>

\* C29: /api/getVc answers 400 when did or templateId is empty. Otherwise it
\* answers 404 when no controller of the index maps to the DID or none that
\* does holds a credential of the template, and an answer of 200 carries the
\* earliest-issued matching credential of a controller that maps to the DID.
\* A DID of the identity registry whose controller holds a matching
\* credential is never answered with 404.
C29_GetVcAnswers ==
  \A did \in SurfaceDids, templateId \in SurfaceTemplates :
    \A answer \in GetVcAnswers(did, templateId) :
      LET mapping == {c \in DOMAIN walletToDID : walletToDID[c] = did}
          holders == {c \in mapping : MatchingCredentials(c, templateId) # <<>>}
      IN  IF did = "" \/ templateId = ""
          THEN answer.status = 400
          ELSE /\ answer.status \in {200, 404}
               /\ holders = {} => answer.status = 404
               /\ answer.status = 200
                    => \E c \in holders :
                         answer.body.credential = MatchingCredentials(c, templateId)[1]
               /\ RegisteredControllerHolds(did, templateId) => answer.status # 404

\* the status and the credential of an answer of /api/getVc
Outcome(answer) ==
  [status |-> answer.status,
   credential |-> IF answer.status = 200 THEN answer.body.credential ELSE EmptyMap]

\* C30: the answer of /api/getVc is determined by its arguments and the
\* registries: every call with the same did and templateId in the same state
\* gets the same status and the same credential, also when more than one
\* controller maps to the DID.
C30_GetVcIsDeterministic ==
  \A did \in SurfaceDids, templateId \in SurfaceTemplates :
    Cardinality({Outcome(answer) : answer \in GetVcAnswers(did, templateId)}) <= 1

====
